---- MODULE Spec2Model ----
(***************************************************************************)
(* Multi-signal attribution of crawler requests: the signature matcher,    *)
(* the network attributor with its DNS verification, the IP information    *)
(* provider with its cache and daily quota, and the arbiter, as they are   *)
(* written in routes/webhook.js (class LLMDetector), config/               *)
(* llm-signatures.js and the IP analysis service (class IPAnalyzer).       *)
(*                                                                         *)
(* Strings that the code searches (User-Agents, signatures, organization   *)
(* names, host names, IP literals) are sequences of one-character strings, *)
(* so toLowerCase, includes, endsWith and the regular expressions are      *)
(* computed.  Confidences are in hundredths (0.95 is 95).                  *)
(***************************************************************************)
EXTENDS Integers, Sequences, FiniteSets, TLC

(***************************************************************************)
(* JavaScript strings                                                      *)
(***************************************************************************)
UpperCaseLetters == <<"A","B","C","D","E","F","G","H","I","J","K","L","M","N","O","P","Q","R","S","T","U","V","W","X","Y","Z">>
LowerCaseLetters == <<"a","b","c","d","e","f","g","h","i","j","k","l","m","n","o","p","q","r","s","t","u","v","w","x","y","z">>

\* String.prototype.toLowerCase on one character (ASCII letters).
toLowerChar(c) ==
  IF \E i \in 1..26 : UpperCaseLetters[i] = c
    THEN LowerCaseLetters[CHOOSE i \in 1..26 : UpperCaseLetters[i] = c]
    ELSE c

toLowerCase(s) == [i \in 1..Len(s) |-> toLowerChar(s[i])]

\* String.prototype.includes
includes(s, sub) ==
  \E i \in 0..(Len(s) - Len(sub)) : SubSeq(s, i + 1, i + Len(sub)) = sub

\* String.prototype.startsWith / endsWith
startsWith(s, pre) == Len(pre) <= Len(s) /\ SubSeq(s, 1, Len(pre)) = pre
endsWith(s, suf) ==
  Len(suf) <= Len(s) /\ SubSeq(s, Len(s) - Len(suf) + 1, Len(s)) = suf

(***************************************************************************)
(* JavaScript values at the entry points: a string, undefined, or a        *)
(* (truthy) number such as a JSON body may carry.                          *)
(***************************************************************************)
JsStr(s) == [type |-> "string", s |-> s]
JsUndefined == [type |-> "undefined", s |-> <<>>]
JsNumber == [type |-> "number", s |-> <<>>]
\* !v : undefined and the empty string are falsy, a non-zero number is truthy
falsy(v) == v.type = "undefined" \/ (v.type = "string" /\ v.s = <<>>)

null == [type |-> "null"]
undefined == [type |-> "undefined"]

(***************************************************************************)
(* The signature registry, in the order Object.entries enumerates it.      *)
(* An ipRanges entry <<a,b,c,d,n>> is the CIDR a.b.c.d/n.                  *)
(***************************************************************************)
LLM_SIGNATURES ==
  <<
     [ company |-> "openai", name |-> "OpenAI",
       userAgents |-> <<
         <<"G","P","T","B","o","t">>,   \* GPTBot
         <<"C","h","a","t","G","P","T","-","U","s","e","r">>,   \* ChatGPT-User
         <<"C","C","B","o","t">>,   \* CCBot
         <<"a","n","t","h","r","o","p","i","c","-","a","i">>,   \* anthropic-ai
         <<"O","p","e","n","A","I","-","S","e","a","r","c","h","B","o","t">>,   \* OpenAI-SearchBot
         <<"O","A","I","-","S","e","a","r","c","h","B","o","t">>   \* OAI-SearchBot
       >>,
       ipRanges |-> <<
         <<23,102,140,112,28>>,   \* 23.102.140.112/28
         <<13,66,11,96,28>>,   \* 13.66.11.96/28
         <<23,98,142,176,28>>,   \* 23.98.142.176/28
         <<40,84,180,224,28>>,   \* 40.84.180.224/28
         <<52,190,190,16,28>>,   \* 52.190.190.16/28
         <<172,182,204,0,24>>,   \* 172.182.204.0/24
         <<20,15,240,64,28>>,   \* 20.15.240.64/28
         <<20,15,240,80,28>>,   \* 20.15.240.80/28
         <<20,15,240,96,28>>   \* 20.15.240.96/28
       >>,
       asn |-> "null", specialVerification |-> FALSE ],
     [ company |-> "anthropic", name |-> "Anthropic",
       userAgents |-> <<
         <<"C","l","a","u","d","e","B","o","t">>,   \* ClaudeBot
         <<"A","N","T","H","R","O","P","I","C","-","A","I">>,   \* ANTHROPIC-AI
         <<"C","L","A","U","D","E","-","W","E","B">>,   \* CLAUDE-WEB
         <<"C","l","a","u","d","e","-","W","e","b">>,   \* Claude-Web
         <<"a","n","t","h","r","o","p","i","c","-","a","i">>,   \* anthropic-ai
         <<"C","l","a","u","d","e">>   \* Claude
       >>,
       ipRanges |-> <<
         <<160,79,104,0,21>>,   \* 160.79.104.0/21
         <<160,79,112,0,21>>   \* 160.79.112.0/21
       >>,
       asn |-> "AS399358", specialVerification |-> FALSE ],
     [ company |-> "google", name |-> "Google",
       userAgents |-> <<
         <<"G","o","o","g","l","e","b","o","t">>,   \* Googlebot
         <<"G","o","o","g","l","e","-","E","x","t","e","n","d","e","d">>,   \* Google-Extended
         <<"G","o","o","g","l","e","O","t","h","e","r">>,   \* GoogleOther
         <<"A","d","s","B","o","t","-","G","o","o","g","l","e">>,   \* AdsBot-Google
         <<"B","a","r","d">>,   \* Bard
         <<"G","o","o","g","l","e","-","I","n","s","p","e","c","t","i","o","n","T","o","o","l">>,   \* Google-InspectionTool
         <<"G","o","o","g","l","e","P","r","o","d","u","c","e","r">>   \* GoogleProducer
       >>,
       ipRanges |-> <<>>,
       asn |-> "AS15169", specialVerification |-> TRUE ],
     [ company |-> "perplexity", name |-> "Perplexity AI",
       userAgents |-> <<
         <<"P","e","r","p","l","e","x","i","t","y","B","o","t">>,   \* PerplexityBot
         <<"P","e","r","p","l","e","x","i","t","y">>,   \* Perplexity
         <<"p","p","l","x">>,   \* pplx
         <<"P","e","r","p","l","e","x","i","t","y","B","o","t","/">>,   \* PerplexityBot/
         <<"M","o","z","i","l","l","a","/","5",".","0"," ","(","c","o","m","p","a","t","i","b","l","e",";"," ","P","e","r","p","l","e","x","i","t","y","B","o","t">>   \* Mozilla/5.0 (compatible; PerplexityBot
       >>,
       ipRanges |-> <<
         <<104,18,26,48,32>>,   \* 104.18.26.48/32
         <<172,67,0,0,16>>,   \* 172.67.0.0/16
         <<104,16,0,0,13>>   \* 104.16.0.0/13
       >>,
       asn |-> "AS13335", specialVerification |-> FALSE ],
     [ company |-> "meta", name |-> "Meta AI",
       userAgents |-> <<
         <<"f","a","c","e","b","o","o","k","e","x","t","e","r","n","a","l","h","i","t">>,   \* facebookexternalhit
         <<"M","e","t","a","-","E","x","t","e","r","n","a","l","A","g","e","n","t">>,   \* Meta-ExternalAgent
         <<"M","e","t","a","-","E","x","t","e","r","n","a","l","F","e","t","c","h","e","r">>,   \* Meta-ExternalFetcher
         <<"F","a","c","e","b","o","o","k","B","o","t">>   \* FacebookBot
       >>,
       ipRanges |-> <<
         <<31,13,24,0,21>>,   \* 31.13.24.0/21
         <<31,13,64,0,18>>,   \* 31.13.64.0/18
         <<66,220,144,0,20>>,   \* 66.220.144.0/20
         <<69,63,176,0,20>>,   \* 69.63.176.0/20
         <<69,171,224,0,19>>,   \* 69.171.224.0/19
         <<74,119,76,0,22>>,   \* 74.119.76.0/22
         <<103,4,96,0,22>>,   \* 103.4.96.0/22
         <<157,240,0,0,17>>,   \* 157.240.0.0/17
         <<173,252,64,0,18>>,   \* 173.252.64.0/18
         <<204,15,20,0,22>>   \* 204.15.20.0/22
       >>,
       asn |-> "AS32934", specialVerification |-> FALSE ],
     [ company |-> "microsoft", name |-> "Microsoft AI",
       userAgents |-> <<
         <<"b","i","n","g","b","o","t">>,   \* bingbot
         <<"B","i","n","g","b","o","t">>,   \* Bingbot
         <<"m","s","n","b","o","t">>,   \* msnbot
         <<"M","i","c","r","o","s","o","f","t","-","C","o","p","i","l","o","t","B","o","t">>,   \* Microsoft-CopilotBot
         <<"C","o","p","i","l","o","t">>   \* Copilot
       >>,
       ipRanges |-> <<
         <<40,77,167,0,24>>,   \* 40.77.167.0/24
         <<157,55,39,0,24>>,   \* 157.55.39.0/24
         <<207,46,13,0,24>>   \* 207.46.13.0/24
       >>,
       asn |-> "AS8075", specialVerification |-> FALSE ],
     [ company |-> "apple", name |-> "Apple AI",
       userAgents |-> <<
         <<"A","p","p","l","e","b","o","t","-","E","x","t","e","n","d","e","d">>,   \* Applebot-Extended
         <<"A","p","p","l","e","b","o","t">>,   \* Applebot
         <<"A","p","p","l","e","N","e","w","s","B","o","t">>   \* AppleNewsBot
       >>,
       ipRanges |-> <<
         <<17,0,0,0,8>>   \* 17.0.0.0/8
       >>,
       asn |-> "AS714", specialVerification |-> FALSE ],
     [ company |-> "amazon", name |-> "Amazon AI",
       userAgents |-> <<
         <<"A","m","a","z","o","n","b","o","t">>,   \* Amazonbot
         <<"A","m","a","z","o","n","-","B","o","t">>,   \* Amazon-Bot
         <<"A","l","e","x","a","B","o","t">>   \* AlexaBot
       >>,
       ipRanges |-> <<
         <<52,0,0,0,11>>,   \* 52.0.0.0/11
         <<54,0,0,0,8>>   \* 54.0.0.0/8
       >>,
       asn |-> "AS16509", specialVerification |-> FALSE ],
     [ company |-> "cohere", name |-> "Cohere AI",
       userAgents |-> <<
         <<"c","o","h","e","r","e","-","a","i">>,   \* cohere-ai
         <<"C","o","h","e","r","e","B","o","t">>,   \* CohereBot
         <<"C","o","h","e","r","e">>   \* Cohere
       >>,
       ipRanges |-> <<>>,
       asn |-> "null", specialVerification |-> FALSE ],
     [ company |-> "bytedance", name |-> "ByteDance AI",
       userAgents |-> <<
         <<"B","y","t","e","s","p","i","d","e","r">>,   \* Bytespider
         <<"B","y","t","e","D","a","n","c","e">>,   \* ByteDance
         <<"T","i","k","T","o","k","B","o","t">>   \* TikTokBot
       >>,
       ipRanges |-> <<
         <<110,249,200,0,21>>,   \* 110.249.200.0/21
         <<111,225,148,0,22>>   \* 111.225.148.0/22
       >>,
       asn |-> "AS55967", specialVerification |-> FALSE ],
     [ company |-> "web_research", name |-> "Web Research Bots",
       userAgents |-> <<
         <<"M","o","z","i","l","l","a","/","5",".","0"," ","(","c","o","m","p","a","t","i","b","l","e",";"," ","r","e","s","e","a","r","c","h",")">>,   \* Mozilla/5.0 (compatible; research)
         <<"M","o","z","i","l","l","a","/","5",".","0"," ","(","c","o","m","p","a","t","i","b","l","e",";"," ","w","e","b","-","r","e","s","e","a","r","c","h",")">>,   \* Mozilla/5.0 (compatible; web-research)
         <<"r","e","s","e","a","r","c","h","-","b","o","t">>,   \* research-bot
         <<"w","e","b","-","c","r","a","w","l","e","r">>,   \* web-crawler
         <<"c","o","n","t","e","n","t","-","f","e","t","c","h","e","r">>,   \* content-fetcher
         <<"a","i","-","r","e","s","e","a","r","c","h">>,   \* ai-research
         <<"l","l","m","-","c","r","a","w","l","e","r">>,   \* llm-crawler
         <<"i","n","t","e","l","l","i","g","e","n","t","-","a","g","e","n","t">>   \* intelligent-agent
       >>,
       ipRanges |-> <<>>,
       asn |-> "null", specialVerification |-> FALSE ],
     [ company |-> "misc_llm", name |-> "Other LLM",
       userAgents |-> <<
         <<"L","i","n","k","e","d","I","n","B","o","t">>,   \* LinkedInBot
         <<"W","h","a","t","s","A","p","p">>,   \* WhatsApp
         <<"T","e","l","e","g","r","a","m","B","o","t">>,   \* TelegramBot
         <<"S","k","y","p","e","U","r","i","P","r","e","v","i","e","w">>,   \* SkypeUriPreview
         <<"S","l","a","c","k","b","o","t">>,   \* Slackbot
         <<"T","w","i","t","t","e","r","b","o","t">>,   \* Twitterbot
         <<"i","a","_","a","r","c","h","i","v","e","r">>,   \* ia_archiver
         <<"S","e","m","r","u","s","h","B","o","t">>,   \* SemrushBot
         <<"A","h","r","e","f","s","B","o","t">>,   \* AhrefsBot
         <<"M","J","1","2","b","o","t">>,   \* MJ12bot
         <<"D","o","t","B","o","t">>,   \* DotBot
         <<"Y","a","n","d","e","x","B","o","t">>,   \* YandexBot
         <<"B","a","i","d","u","S","p","i","d","e","r">>,   \* BaiduSpider
         <<"A","I","2","B","o","t">>,   \* AI2Bot
         <<"Y","o","u","B","o","t">>,   \* YouBot
         <<"C","h","a","t","G","P","T">>,   \* ChatGPT
         <<"G","P","T","-","4">>,   \* GPT-4
         <<"A","I","-","A","g","e","n","t">>,   \* AI-Agent
         <<"i","n","t","e","l","l","i","g","e","n","t","-","c","r","a","w","l","e","r">>,   \* intelligent-crawler
         <<"s","m","a","r","t","-","b","o","t">>,   \* smart-bot
         <<"r","e","s","e","a","r","c","h","-","a","g","e","n","t">>,   \* research-agent
         <<"c","o","n","t","e","n","t","-","a","n","a","l","y","z","e","r">>   \* content-analyzer
       >>,
       ipRanges |-> <<>>,
       asn |-> "null", specialVerification |-> FALSE ]
  >>

CompanyKeys == {LLM_SIGNATURES[i].company : i \in DOMAIN LLM_SIGNATURES}

(***************************************************************************)
(* SignatureMatcher: LLMDetector.checkUserAgent                            *)
(***************************************************************************)
highConfidenceSignatures ==
  << <<"g","p","t","b","o","t">>, <<"c","l","a","u","d","e","b","o","t">>,
     <<"g","o","o","g","l","e","b","o","t">>, <<"p","e","r","p","l","e","x","i","t","y","b","o","t">> >>

\* Mutant of calculateUserAgentConfidence: the exact-match test compares
\* the strings as written, without lower-casing them.
calculateUserAgentConfidence_CaseSensitive(userAgent, signature) ==
  IF userAgent = signature THEN 95
  ELSE IF \E k \in DOMAIN highConfidenceSignatures :
            includes(toLowerCase(signature), highConfidenceSignatures[k])
         THEN 90
         ELSE 80

calculateUserAgentConfidence(userAgent, signature) ==
  IF toLowerCase(userAgent) = toLowerCase(signature) THEN 95
  ELSE IF \E k \in DOMAIN highConfidenceSignatures :
            includes(toLowerCase(signature), highConfidenceSignatures[k])
         THEN 90
         ELSE 80

\* A detection result.  Fields a producer does not set are undefined
\* (matchedPattern: the empty string; alternativeDetections: absent = <<>>).
Detection(company, companyName, method, confidence, pattern, ipInfo) ==
  [ company |-> company, companyName |-> companyName, method |-> method,
    confidence |-> confidence, matchedPattern |-> pattern, ipInfo |-> ipInfo,
    alternativeDetections |-> <<>> ]

\* The companies (registry positions) with a signature contained in lowerUA.
CompaniesMatching(lowerUA) ==
  { i \in DOMAIN LLM_SIGNATURES :
      \E j \in DOMAIN LLM_SIGNATURES[i].userAgents :
        includes(lowerUA, toLowerCase(LLM_SIGNATURES[i].userAgents[j])) }

SetMin(S) == CHOOSE x \in S : \A y \in S : x <= y

\* Mutant of checkUserAgent: the User-Agent is not lower-cased before the
\* search (the signatures still are).
checkUserAgent_NoLowerCase(userAgent) ==
  IF falsy(userAgent) \/ userAgent.type # "string" THEN null
  ELSE
    LET hits == CompaniesMatching(userAgent.s) IN
    IF hits = {} THEN null
    ELSE
      LET i == SetMin(hits)
          config == LLM_SIGNATURES[i]
          j == SetMin({ k \in DOMAIN config.userAgents :
                          includes(userAgent.s, toLowerCase(config.userAgents[k])) })
      IN Detection(config.company, config.name, "user_agent",
                   calculateUserAgentConfidence(userAgent.s, config.userAgents[j]),
                   config.userAgents[j], undefined)

\* Mutant of checkUserAgent: of the company's signatures the last one that
\* matches is reported, not the first.
checkUserAgent_LastSignature(userAgent) ==
  IF falsy(userAgent) \/ userAgent.type # "string" THEN null
  ELSE
    LET lowerUserAgent == toLowerCase(userAgent.s)
        hits == CompaniesMatching(lowerUserAgent)
    IN
    IF hits = {} THEN null
    ELSE
      LET i == SetMin(hits)
          config == LLM_SIGNATURES[i]
          matching == { k \in DOMAIN config.userAgents :
                          includes(lowerUserAgent, toLowerCase(config.userAgents[k])) }
          j == CHOOSE x \in matching : \A y \in matching : x >= y
      IN Detection(config.company, config.name, "user_agent",
                   calculateUserAgentConfidence(userAgent.s, config.userAgents[j]),
                   config.userAgents[j], undefined)

checkUserAgent(userAgent) ==
  IF falsy(userAgent) \/ userAgent.type # "string" THEN null
  ELSE
    LET lowerUserAgent == toLowerCase(userAgent.s)
        hits == CompaniesMatching(lowerUserAgent)
    IN
    IF hits = {} THEN null
    ELSE
      \* the first company in registry order, then its first signature in list
      \* order: the nested for loops return at the first hit
      LET i == SetMin(hits)
          config == LLM_SIGNATURES[i]
          j == SetMin({ k \in DOMAIN config.userAgents :
                          includes(lowerUserAgent, toLowerCase(config.userAgents[k])) })
      IN Detection(config.company, config.name, "user_agent",
                   calculateUserAgentConfidence(userAgent.s, config.userAgents[j]),
                   config.userAgents[j], undefined)

(***************************************************************************)
(* IPInfoProvider: class IPAnalyzer                                        *)
(***************************************************************************)
VARIABLES
  cache,          \* IPAnalyzer.cache: ip string -> [data, timestamp]
  requestCount,   \* IPAnalyzer.requestCount
  lastReset,      \* IPAnalyzer.lastReset
  clock           \* Date.now(), in milliseconds since construction

\* this.cacheTimeout, in milliseconds
cacheTimeout == 24 * 60 * 60 * 1000

\* this.maxRequestsPerDay is 1000 (10000 with an API key); the quota logic
\* only compares the counter with it, and the model runs it scaled down.
maxRequestsPerDay == 1

DecimalDigits == <<"0","1","2","3","4","5","6","7","8","9">>
isDigit(c) == \E i \in 1..10 : DecimalDigits[i] = c
digitValue(c) == (CHOOSE i \in 1..10 : DecimalDigits[i] = c) - 1
HexLetters == <<"a","b","c","d","e","f","A","B","C","D","E","F">>
isHexDigit(c) == isDigit(c) \/ \E i \in 1..12 : HexLetters[i] = c

\* The pieces of s between the occurrences of the character sep.
RECURSIVE SplitFrom(_, _, _, _)
SplitFrom(s, sep, i, cur) ==
  IF i > Len(s) THEN <<cur>>
  ELSE IF s[i] = sep THEN <<cur>> \o SplitFrom(s, sep, i + 1, <<>>)
  ELSE SplitFrom(s, sep, i + 1, Append(cur, s[i]))
Split(s, sep) == SplitFrom(s, sep, 1, <<>>)

\* Mutant of matchesOctet: any one to three digits, [0-9]{1,3}.
matchesOctet_AnyDigits(p) ==
  /\ Len(p) \in 1..3
  /\ \A i \in 1..Len(p) : isDigit(p[i])

\* (?:25[0-5]|2[0-4][0-9]|[01]?[0-9][0-9]?)
matchesOctet(p) ==
  /\ Len(p) \in 1..3
  /\ \A i \in 1..Len(p) : isDigit(p[i])
  /\ Len(p) = 3 =>
       \/ p[1] \in {"0", "1"}
       \/ p[1] = "2" /\ p[2] \in {"0","1","2","3","4"}
       \/ p[1] = "2" /\ p[2] = "5" /\ p[3] \in {"0","1","2","3","4","5"}

ipv4Regex(s) ==
  LET parts == Split(s, ".") IN
  Len(parts) = 4 /\ \A k \in 1..4 : matchesOctet(parts[k])

\* /^(?:[0-9a-fA-F]{1,4}:){7}[0-9a-fA-F]{1,4}$/
ipv6Regex(s) ==
  LET parts == Split(s, ":") IN
  /\ Len(parts) = 8
  /\ \A k \in 1..8 : /\ Len(parts[k]) \in 1..4
                     /\ \A i \in 1..Len(parts[k]) : isHexDigit(parts[k][i])

isValidIP(ip) ==
  IF falsy(ip) \/ ip.type # "string" THEN FALSE
  ELSE ipv4Regex(ip.s) \/ ipv6Regex(ip.s)

\* Mutant of isPrivateIP: only the loopback patterns are left.
isPrivateIP_LoopbackOnly(ip) ==
  \/ startsWith(ip.s, <<"1","2","7",".">>)
  \/ ip.s = <<":",":","1">>

\* isPrivateIP is only reached with a string (isValidIP has passed)
isPrivateIP(ip) ==
  LET s == ip.s IN
  \/ startsWith(s, <<"1","0",".">>)
  \/ /\ startsWith(s, <<"1","7","2",".">>)
     /\ Len(s) >= 7
     /\ \/ s[5] = "1" /\ s[6] \in {"6","7","8","9"}
        \/ s[5] = "2" /\ isDigit(s[6])
        \/ s[5] = "3" /\ s[6] \in {"0","1"}
     /\ s[7] = "."
  \/ startsWith(s, <<"1","9","2",".","1","6","8",".">>)
  \/ startsWith(s, <<"1","2","7",".">>)
  \/ startsWith(s, <<"1","6","9",".","2","5","4",".">>)
  \/ s = <<":",":","1">>
  \/ startsWith(s, <<"f","e","8","0",":">>)
  \/ startsWith(s, <<"f","c","0","0",":">>)
  \/ startsWith(s, <<"f","d","0","0",":">>)

Unknown == <<"U","n","k","n","o","w","n">>
PrivateNetwork == <<"P","r","i","v","a","t","e"," ","N","e","t","w","o","r","k">>

\* The IPInfo fields the detector reads or that tell the sentinels apart; the
\* remaining fields (region, city, timezone, ...) are filled the same way.
getDefaultIPInfo(ipAddress, now) ==
  [ ip |-> ipAddress, country |-> Unknown, organization |-> Unknown,
    asn |-> "null", analysisTimestamp |-> now, isPrivate |-> FALSE,
    error |-> TRUE ]

getPrivateIPInfo(ipAddress, now) ==
  [ ip |-> ipAddress, country |-> PrivateNetwork, organization |-> PrivateNetwork,
    asn |-> "null", analysisTimestamp |-> now, isPrivate |-> TRUE,
    error |-> FALSE ]

\* An exception in flight (a rejected promise).
Throw == [type |-> "throw"]

\* What axios.get settles with: a rejection (network error, or the 5000 ms
\* timeout), or a response whose data carries error / country_name / org / asn
\* (absent or empty string fields are <<>>, an absent asn is "null").
GeoReject(why) == [settled |-> "rejected", why |-> why]
GeoResponse(err, country, org, asn) ==
  [ settled |-> "resolved",
    data |-> [error |-> err, country_name |-> country, org |-> org, asn |-> asn] ]

\* x || 'Unknown' for a string field
orUnknown(x) == IF x = <<>> THEN Unknown ELSE x

fetchIPInfo(ipAddress, outcome, now) ==
  IF outcome.settled = "rejected" THEN Throw
  ELSE IF outcome.data.error THEN Throw
  ELSE [ ip |-> ipAddress,
         country |-> orUnknown(outcome.data.country_name),
         organization |-> orUnknown(outcome.data.org),
         asn |-> outcome.data.asn,
         analysisTimestamp |-> now, isPrivate |-> FALSE, error |-> FALSE ]

\* Mutant of canMakeRequest: the new day begins at 24 hours, not after them.
canMakeRequest_ResetAtDay(count, reset, now) ==
  LET isNewDay == now - reset >= 24 * 60 * 60 * 1000
      count2 == IF isNewDay THEN 0 ELSE count
      reset2 == IF isNewDay THEN now ELSE reset
  IN [ requestCount |-> count2, lastReset |-> reset2,
       ok |-> count2 < maxRequestsPerDay ]

\* Mutant of canMakeRequest: the quota test is <= instead of <.
canMakeRequest_OffByOne(count, reset, now) ==
  LET isNewDay == now - reset > 24 * 60 * 60 * 1000
      count2 == IF isNewDay THEN 0 ELSE count
      reset2 == IF isNewDay THEN now ELSE reset
  IN [ requestCount |-> count2, lastReset |-> reset2,
       ok |-> count2 <= maxRequestsPerDay ]

\* canMakeRequest: the counter and lastReset it leaves, and its answer
canMakeRequest(count, reset, now) ==
  LET isNewDay == now - reset > 24 * 60 * 60 * 1000
      count2 == IF isNewDay THEN 0 ELSE count
      reset2 == IF isNewDay THEN now ELSE reset
  IN [ requestCount |-> count2, lastReset |-> reset2,
       ok |-> count2 < maxRequestsPerDay ]

cacheGetIn(c, key) == IF key \in DOMAIN c THEN c[key] ELSE undefined
cacheGet(key) == cacheGetIn(cache, key)
cacheSet(c, key, entry) ==
  [k \in DOMAIN c \cup {key} |-> IF k = key THEN entry ELSE c[k]]

\* Mutant of cachedOrDefault: the cached entry is ignored.
cachedOrDefault_AlwaysDefault(cached, ipAddress, now) ==
  getDefaultIPInfo(ipAddress, now)

\* cached?.data || this.getDefaultIPInfo(ipAddress)
cachedOrDefault(cached, ipAddress, now) ==
  IF cached # undefined THEN cached.data ELSE getDefaultIPInfo(ipAddress, now)

\* Mutant of analyzeIPBegin: the cache is not consulted before the quota.
analyzeIPBegin_NoCacheCheck(ipAddress, now) ==
  LET same == [ requestCount |-> requestCount, lastReset |-> lastReset ] IN
  IF ~isValidIP(ipAddress)
    THEN same @@ [ returned |-> TRUE, path |-> "invalid", cached |-> undefined,
                   value |-> getDefaultIPInfo(ipAddress, now) ]
  ELSE IF isPrivateIP(ipAddress)
    THEN same @@ [ returned |-> TRUE, path |-> "private", cached |-> undefined,
                   value |-> getPrivateIPInfo(ipAddress, now) ]
  ELSE
    LET cached == cacheGet(ipAddress.s)
        q == canMakeRequest(requestCount, lastReset, now)
    IN IF ~q.ok
         THEN [ requestCount |-> q.requestCount, lastReset |-> q.lastReset,
                returned |-> TRUE, path |-> "quota", cached |-> cached,
                value |-> cachedOrDefault(cached, ipAddress, now) ]
         ELSE [ requestCount |-> q.requestCount, lastReset |-> q.lastReset,
                returned |-> FALSE, path |-> "fetch", cached |-> cached,
                value |-> undefined ]

\* Mutant of analyzeIPBegin: an entry exactly 24 hours old still counts as
\* fresh (<= instead of <).
analyzeIPBegin_FreshAtTimeout(ipAddress, now) ==
  LET same == [ requestCount |-> requestCount, lastReset |-> lastReset ] IN
  IF ~isValidIP(ipAddress)
    THEN same @@ [ returned |-> TRUE, path |-> "invalid", cached |-> undefined,
                   value |-> getDefaultIPInfo(ipAddress, now) ]
  ELSE IF isPrivateIP(ipAddress)
    THEN same @@ [ returned |-> TRUE, path |-> "private", cached |-> undefined,
                   value |-> getPrivateIPInfo(ipAddress, now) ]
  ELSE
    LET cached == cacheGet(ipAddress.s) IN
    IF cached # undefined /\ now - cached.timestamp <= cacheTimeout
      THEN same @@ [ returned |-> TRUE, path |-> "cache", cached |-> cached,
                     value |-> cached.data ]
    ELSE
      LET q == canMakeRequest(requestCount, lastReset, now) IN
      IF ~q.ok
        THEN [ requestCount |-> q.requestCount, lastReset |-> q.lastReset,
               returned |-> TRUE, path |-> "quota", cached |-> cached,
               value |-> cachedOrDefault(cached, ipAddress, now) ]
        ELSE [ requestCount |-> q.requestCount, lastReset |-> q.lastReset,
               returned |-> FALSE, path |-> "fetch", cached |-> cached,
               value |-> undefined ]

\* analyzeIP up to its await, reading the cache c: either it returns (returned = TRUE, value) or
\* it calls fetchIPInfo and suspends, holding the cache entry it read.
\* requestCount / lastReset are the values canMakeRequest leaves.
analyzeIPBeginIn(c, ipAddress, now) ==
  LET same == [ requestCount |-> requestCount, lastReset |-> lastReset ] IN
  IF ~isValidIP(ipAddress)
    THEN same @@ [ returned |-> TRUE, path |-> "invalid", cached |-> undefined,
                   value |-> getDefaultIPInfo(ipAddress, now) ]
  ELSE IF isPrivateIP(ipAddress)
    THEN same @@ [ returned |-> TRUE, path |-> "private", cached |-> undefined,
                   value |-> getPrivateIPInfo(ipAddress, now) ]
  ELSE
    LET cached == cacheGetIn(c, ipAddress.s) IN
    IF cached # undefined /\ now - cached.timestamp < cacheTimeout
      THEN same @@ [ returned |-> TRUE, path |-> "cache", cached |-> cached,
                     value |-> cached.data ]
    ELSE
      LET q == canMakeRequest(requestCount, lastReset, now) IN
      IF ~q.ok
        THEN [ requestCount |-> q.requestCount, lastReset |-> q.lastReset,
               returned |-> TRUE, path |-> "quota", cached |-> cached,
               value |-> cachedOrDefault(cached, ipAddress, now) ]
        ELSE [ requestCount |-> q.requestCount, lastReset |-> q.lastReset,
               returned |-> FALSE, path |-> "fetch", cached |-> cached,
               value |-> undefined ]

\* analyzeIP reads this.cache
analyzeIPBegin(ipAddress, now) == analyzeIPBeginIn(cache, ipAddress, now)

\* Mutant of analyzeIPEnd: the catch block is missing, so a failed lookup
\* propagates out of analyzeIP.
analyzeIPEnd_Rethrow(ipAddress, cached, outcome, now) ==
  LET ipInfo == fetchIPInfo(ipAddress, outcome, now) IN
  IF ipInfo # Throw
    THEN [ value |-> ipInfo, path |-> "fetched",
           cache |-> cacheSet(cache, ipAddress.s, [data |-> ipInfo, timestamp |-> now]),
           requestCount |-> requestCount + 1 ]
    ELSE [ value |-> Throw, path |-> "failed",
           cache |-> cache, requestCount |-> requestCount ]

\* Mutant of analyzeIPEnd: the counter is written from a value read before
\* the lookup (0), so the second of two overlapping lookups loses the
\* first one's update.
analyzeIPEnd_LostUpdate(ipAddress, cached, outcome, now) ==
  LET ipInfo == fetchIPInfo(ipAddress, outcome, now) IN
  IF ipInfo # Throw
    THEN [ value |-> ipInfo, path |-> "fetched",
           cache |-> cacheSet(cache, ipAddress.s, [data |-> ipInfo, timestamp |-> now]),
           requestCount |-> IF requestCount = 0 THEN 1 ELSE requestCount ]
    ELSE [ value |-> cachedOrDefault(cached, ipAddress, now), path |-> "failed",
           cache |-> cache, requestCount |-> requestCount ]

\* analyzeIP from the moment fetchIPInfo settles: the value returned, and the
\* cache and counter it leaves.
analyzeIPEnd(ipAddress, cached, outcome, now) ==
  LET ipInfo == fetchIPInfo(ipAddress, outcome, now) IN
  IF ipInfo # Throw
    THEN [ value |-> ipInfo, path |-> "fetched",
           cache |-> cacheSet(cache, ipAddress.s, [data |-> ipInfo, timestamp |-> now]),
           requestCount |-> requestCount + 1 ]
    ELSE [ value |-> cachedOrDefault(cached, ipAddress, now), path |-> "failed",
           cache |-> cache, requestCount |-> requestCount ]

(***************************************************************************)
(* NetworkAttributor: LLMDetector.checkIPAddress and what it calls         *)
(***************************************************************************)
RECURSIVE decimalValue(_)
decimalValue(p) ==
  IF p = <<>> THEN 0
  ELSE 10 * decimalValue(SubSeq(p, 1, Len(p) - 1)) + digitValue(p[Len(p)])

\* ipaddr.js on a dotted quad of plain decimal octets: the four octets, or
\* <<>> when the text is no such address (the library then throws, and
\* ip-range-check answers false).
parseIPv4(s) ==
  LET parts == Split(s, ".") IN
  IF /\ Len(parts) = 4
     /\ \A k \in 1..4 : /\ Len(parts[k]) \in 1..3
                        /\ \A i \in 1..Len(parts[k]) : isDigit(parts[k][i])
                        /\ (Len(parts[k]) > 1 => parts[k][1] # "0")
                        /\ decimalValue(parts[k]) <= 255
    THEN [k \in 1..4 |-> decimalValue(parts[k])]
    ELSE <<>>

\* require('ip-range-check') on one CIDR range <<a,b,c,d,n>>: the first n
\* bits of the address equal those of a.b.c.d.
ipRangeCheck(ipAddress, range) ==
  IF ipAddress.type # "string" THEN FALSE
  ELSE
    LET addr == parseIPv4(ipAddress.s)
        bits == range[5]
        whole == bits \div 8
        rest == bits % 8
    IN /\ addr # <<>>
       /\ \A k \in 1..whole : addr[k] = range[k]
       /\ rest > 0 =>
            addr[whole + 1] \div (2 ^ (8 - rest)) = range[whole + 1] \div (2 ^ (8 - rest))

\* Registry positions whose ranges contain the address.
CompaniesInRange(ipAddress) ==
  { i \in DOMAIN LLM_SIGNATURES :
      \E r \in DOMAIN LLM_SIGNATURES[i].ipRanges :
        ipRangeCheck(ipAddress, LLM_SIGNATURES[i].ipRanges[r]) }

\* The first loop of checkIPAddress: the ip_range detection, or null.
checkIPRanges(ipAddress, ipInfo) ==
  LET hits == CompaniesInRange(ipAddress) IN
  IF hits = {} THEN null
  ELSE LET config == LLM_SIGNATURES[SetMin(hits)] IN
       Detection(config.company, config.name, "ip_range", 90, <<>>, ipInfo)

\* The ASN loop from registry position `from` on: the first position whose
\* asn is set and equals ipInfo.asn, or 0.
nextAsnMatch(ipInfo, from) ==
  LET hits == { i \in DOMAIN LLM_SIGNATURES :
                  /\ i >= from
                  /\ LLM_SIGNATURES[i].asn # "null"
                  /\ ipInfo.asn = LLM_SIGNATURES[i].asn }
  IN IF ipInfo.asn = "null" \/ hits = {} THEN 0 ELSE SetMin(hits)

asnDetection(i, ipInfo) ==
  Detection(LLM_SIGNATURES[i].company, LLM_SIGNATURES[i].name, "asn", 70, <<>>, ipInfo)

reverseDnsDetection(i, ipInfo) ==
  Detection(LLM_SIGNATURES[i].company, LLM_SIGNATURES[i].name, "reverse_dns", 95,
            <<>>, ipInfo)

orgPatterns ==
  << [ company |-> "google",
       patterns |-> << <<"g","o","o","g","l","e">>, <<"g","o","o","g","l","e","b","o","t">>, <<"g","o","o","g","l","e"," ","i","n","c">>, <<"a","l","p","h","a","b","e","t">> >> ],
     [ company |-> "openai", patterns |-> << <<"o","p","e","n","a","i">>, <<"o","p","e","n"," ","a","i">> >> ],
     [ company |-> "anthropic", patterns |-> << <<"a","n","t","h","r","o","p","i","c">> >> ],
     [ company |-> "meta", patterns |-> << <<"f","a","c","e","b","o","o","k">>, <<"m","e","t","a">>, <<"m","e","t","a"," ","p","l","a","t","f","o","r","m","s">> >> ],
     [ company |-> "perplexity", patterns |-> << <<"p","e","r","p","l","e","x","i","t","y">>, <<"p","p","l","x">> >> ] >>

\* LLM_SIGNATURES[companyKey]?.name || companyKey
companyDisplayName(companyKey) ==
  IF \E i \in DOMAIN LLM_SIGNATURES : LLM_SIGNATURES[i].company = companyKey
    THEN LLM_SIGNATURES[CHOOSE i \in DOMAIN LLM_SIGNATURES :
                          LLM_SIGNATURES[i].company = companyKey].name
    ELSE companyKey

checkOrganizationName(organization, ipInfo) ==
  IF organization = <<>> THEN null
  ELSE
    LET lowerOrg == toLowerCase(organization)
        hits == { i \in DOMAIN orgPatterns :
                    \E j \in DOMAIN orgPatterns[i].patterns :
                      includes(lowerOrg, orgPatterns[i].patterns[j]) }
    IN IF hits = {} THEN null
       ELSE
         LET i == SetMin(hits)
             j == SetMin({ k \in DOMAIN orgPatterns[i].patterns :
                             includes(lowerOrg, orgPatterns[i].patterns[k]) })
         IN Detection(orgPatterns[i].company, companyDisplayName(orgPatterns[i].company),
                      "organization", 60, orgPatterns[i].patterns[j], ipInfo)

\* verifyGooglebot's allow-list of domain suffixes
validGoogleDomains == << <<".","g","o","o","g","l","e","b","o","t",".","c","o","m">>, <<".","g","o","o","g","l","e",".","c","o","m">>, <<".","c","r","a","w","l",".","y","a","h","o","o",".","n","e","t">> >>

\* Mutant of isValidGoogleHostname: the domain is searched anywhere in the
\* host name instead of at its end.
isValidGoogleHostname_Includes(hostname) ==
  \E d \in DOMAIN validGoogleDomains :
    includes(toLowerCase(hostname), validGoogleDomains[d])

isValidGoogleHostname(hostname) ==
  \E d \in DOMAIN validGoogleDomains :
    endsWith(toLowerCase(hostname), validGoogleDomains[d])

\* The for loop of verifyGooglebot from position `from` on: the next host
\* name that ends with an allow-listed domain, or 0.
nextGoogleHostname(hostnames, from) ==
  LET hits == { h \in DOMAIN hostnames :
                  h >= from /\ isValidGoogleHostname(hostnames[h]) }
  IN IF hits = {} THEN 0 ELSE SetMin(hits)

\* addresses.includes(ipAddress)
addressesInclude(addresses, ipAddress) ==
  \E a \in DOMAIN addresses : addresses[a] = ipAddress.s

(***************************************************************************)
(* DetectionArbiter and StatsRegistry: selectBestDetection, updateStats    *)
(***************************************************************************)
\* Mutant of insertByConfidence: a later element goes before the earlier
\* ones of equal confidence (the sort is not stable).
insertByConfidence_BeforeEquals(x, sorted) ==
  LET k == Cardinality({ i \in DOMAIN sorted : sorted[i].confidence > x.confidence })
  IN SubSeq(sorted, 1, k) \o <<x>> \o SubSeq(sorted, k + 1, Len(sorted))

\* Array.prototype.sort((a, b) => b.confidence - a.confidence): a stable
\* sort, confidence descending.
insertByConfidence(x, sorted) ==
  LET k == Cardinality({ i \in DOMAIN sorted : sorted[i].confidence >= x.confidence })
  IN SubSeq(sorted, 1, k) \o <<x>> \o SubSeq(sorted, k + 1, Len(sorted))

RECURSIVE sortByConfidence(_)
sortByConfidence(detections) ==
  IF detections = <<>> THEN <<>>
  ELSE insertByConfidence(detections[Len(detections)],
                          sortByConfidence(SubSeq(detections, 1, Len(detections) - 1)))

\* Mutant of selectBestDetection: the empty-list test is missing, and
\* detections[0] of an empty array is undefined.
selectBestDetection_NoEmptyCheck(detections) ==
  IF Len(detections) = 0 THEN undefined
  ELSE
    LET sorted == sortByConfidence(detections) IN
    IF Len(sorted) > 1
      THEN [sorted[1] EXCEPT !.alternativeDetections = Tail(sorted)]
      ELSE sorted[1]

\* Mutant of selectBestDetection: the list is not sorted.
selectBestDetection_Unsorted(detections) ==
  IF Len(detections) = 0 THEN null
  ELSE
    IF Len(detections) > 1
      THEN [detections[1] EXCEPT !.alternativeDetections = Tail(detections)]
      ELSE detections[1]

selectBestDetection(detections) ==
  IF Len(detections) = 0 THEN null
  ELSE
    LET sorted == sortByConfidence(detections) IN
    IF Len(sorted) > 1
      THEN [sorted[1] EXCEPT !.alternativeDetections = Tail(sorted)]
      ELSE sorted[1]

\* Mutant of selectBestDetectionEnhanced: the list is not sorted.
selectBestDetectionEnhanced_Unsorted(detections) ==
  IF Len(detections) = 0 THEN null
  ELSE detections[1]

\* EnhancedLLMDetector.selectBestDetection: the first of the sorted list, as
\* it is.
selectBestDetectionEnhanced(detections) ==
  IF Len(detections) = 0 THEN null
  ELSE sortByConfidence(detections)[1]

\* counts[key] = (counts[key] || 0) + 1
increment(counts, key) ==
  [k \in DOMAIN counts \cup {key} |->
     IF k = key THEN (IF key \in DOMAIN counts THEN counts[key] ELSE 0) + 1
     ELSE counts[k]]

\* The detectionStats the constructor builds.
initialDetectionStats ==
  [ totalDetections |-> 0,
    methodCounts |-> [m \in {"user_agent", "ip_range", "asn", "reverse_dns"} |-> 0],
    companyCounts |-> [c \in {} |-> 0] ]

\* resetStats: the detectionStats it installs
resetDetectionStats ==
  [ totalDetections |-> 0,
    methodCounts |-> [m \in {"user_agent", "ip_range", "asn", "reverse_dns", "organization"} |-> 0],
    companyCounts |-> [c \in {} |-> 0] ]

\* Mutant of updateStats: the company is not counted.
updateStats_NoCompany(stats, detection) ==
  [ totalDetections |-> stats.totalDetections + 1,
    methodCounts |-> increment(stats.methodCounts, detection.method),
    companyCounts |-> stats.companyCounts ]

updateStats(stats, detection) ==
  [ totalDetections |-> stats.totalDetections + 1,
    methodCounts |-> increment(stats.methodCounts, detection.method),
    companyCounts |-> increment(stats.companyCounts, detection.company) ]

(***************************************************************************)
(* LLMDetector.detectLLMCompany as a state machine.  One call runs at a    *)
(* time; it suspends at each await on an external service (the geolocation *)
(* lookup inside analyzeIP, dns.reverse and dns.resolve4 inside            *)
(* verifyGooglebot) and the service's answer resumes it.                   *)
(***************************************************************************)
VARIABLES
  detectionStats, \* LLMDetector.detectionStats
  pc,             \* where the call is: "idle", "fetch", "reverse", "resolve4", "done"
  call,           \* the call's arguments and locals, and what it has observed
  result,         \* what the last completed call returned
  requests        \* number of detectLLMCompany calls started

\* Number of detectLLMCompany calls a run makes.
MaxRequests == 1

NoCall == [type |-> "none"]

\* --- inputs -------------------------------------------------------------
UA_GPTBot == JsStr(<<"G","P","T","B","o","t","/","1",".","0"," ","(","+","h","t","t","p","s",":","/","/","o","p","e","n","a","i",".","c","o","m","/","g","p","t","b","o","t",")">>)
UA_GoogleExtended == JsStr(<<"M","o","z","i","l","l","a","/","5",".","0"," ","(","c","o","m","p","a","t","i","b","l","e",";"," ","G","o","o","g","l","e","-","E","x","t","e","n","d","e","d",")">>)
UA_Chrome == JsStr(<<"M","o","z","i","l","l","a","/","5",".","0"," ","(","W","i","n","d","o","w","s"," ","N","T"," ","1","0",".","0",")"," ","C","h","r","o","m","e","/","1","2","0",".","0">>)
DetectUserAgents == { UA_GPTBot, UA_GoogleExtended, UA_Chrome, JsUndefined }

IP_OpenAI == JsStr(<<"2","3",".","1","0","2",".","1","4","0",".","1","1","5">>)       \* inside 23.102.140.112/28
IP_Perplexity == JsStr(<<"1","0","4",".","1","8",".","2","6",".","4","8">>)   \* inside 104.18.26.48/32 and 104.16.0.0/13
IP_Public == JsStr(<<"6","6",".","2","4","9",".","6","6",".","1">>)       \* in no registered range
IP_Loopback == JsStr(<<"1","2","7",".","0",".","0",".","1">>)
IP_Unknown == JsStr(<<"u","n","k","n","o","w","n">>)      \* the webhook's fallback 'unknown'
DetectIPs ==
  { IP_OpenAI, IP_Perplexity, IP_Public, IP_Loopback, IP_Unknown, JsUndefined, JsNumber }

Org_Google == <<"G","o","o","g","l","e"," ","L","L","C">>
Org_Facebook == <<"F","a","c","e","b","o","o","k",","," ","I","n","c",".">>
Org_OpenAI == <<"O","p","e","n","A","I",","," ","L",".","L",".","C",".">>
Org_Other == <<"E","x","a","m","p","l","e"," ","H","o","s","t","i","n","g">>
Country_US == <<"U","n","i","t","e","d"," ","S","t","a","t","e","s">>

\* What the geolocation service may answer.
GeoOutcomes ==
  { GeoReject("error"), GeoReject("timeout"),
    GeoResponse(TRUE, <<>>, <<>>, "null"),
    GeoResponse(FALSE, Country_US, Org_Google, "AS15169"),
    GeoResponse(FALSE, Country_US, Org_Other, "AS15169"),
    GeoResponse(FALSE, Country_US, Org_Facebook, "AS399358"),
    GeoResponse(FALSE, Country_US, Org_OpenAI, "null"),
    GeoResponse(FALSE, <<>>, <<>>, "null") }

\* What the resolver may answer: a rejection, or the records.
DnsReject == [settled |-> "rejected", records |-> <<>>]
DnsAnswer(records) == [settled |-> "resolved", records |-> records]

Host_Googlebot == <<"c","r","a","w","l","-","6","6","-","2","4","9","-","6","6","-","1",".","g","o","o","g","l","e","b","o","t",".","c","o","m">>
Host_GooglebotUpper == <<"C","r","a","w","l","-","6","6","-","2","4","9","-","6","6","-","1",".","G","o","o","g","l","e","B","o","t",".","c","o","m">>
Host_Google == <<"r","a","t","e","-","l","i","m","i","t","e","d","-","p","r","o","x","y",".","g","o","o","g","l","e",".","c","o","m">>
Host_Evil == <<"e","v","i","l",".","e","x","a","m","p","l","e",".","c","o","m">>
Host_Lookalike == <<"c","r","a","w","l",".","g","o","o","g","l","e","b","o","t",".","c","o","m",".","e","v","i","l",".","n","e","t">>

ReverseOutcomes ==
  { DnsReject, DnsAnswer(<<>>),
    DnsAnswer(<<Host_Googlebot>>),
    DnsAnswer(<<Host_Evil, Host_GooglebotUpper>>),
    DnsAnswer(<<Host_Lookalike>>),
    DnsAnswer(<<Host_Google, Host_Googlebot>>) }

Resolve4Outcomes ==
  { DnsReject, DnsAnswer(<<IP_Public.s>>), DnsAnswer(<<IP_Loopback.s>>),
    DnsAnswer(<<IP_OpenAI.s, IP_Public.s>>) }

\* --- checkIPAddress, from the value analyzeIP returned -------------------
\* Each operator takes the call record and gives it back with what the call
\* does next: next = "reverse" / "resolve4" (await the resolver) or "return"
\* (checkIPAddress returns ipDetection).

\* Mutant of requiresVerification: Google's ASN is trusted like any other.
requiresVerification_Never(i) == FALSE

\* companyKey === 'google': the company whose ASN match needs verifyGooglebot
requiresVerification(i) == LLM_SIGNATURES[i].company = "google"

\* Mutant of afterAsn: the organization check runs before the ASN loop.
afterAsn_OrganizationFirst(c, from) ==
  LET i == nextAsnMatch(c.ipInfo, from)
      org == IF c.ipInfo.organization # <<>>
               THEN checkOrganizationName(c.ipInfo.organization, c.ipInfo)
               ELSE null
  IN
  IF org # null THEN [c EXCEPT !.next = "return", !.ipDetection = org]
  ELSE IF i = 0 THEN [c EXCEPT !.next = "return", !.ipDetection = null]
  ELSE IF requiresVerification(i)
    THEN [c EXCEPT !.next = "reverse", !.asnIdx = i]
  ELSE [c EXCEPT !.next = "return", !.ipDetection = asnDetection(i, c.ipInfo)]

\* The ASN loop from registry position `from`, then the organization check.
afterAsn(c, from) ==
  LET i == nextAsnMatch(c.ipInfo, from) IN
  IF i = 0
    THEN [c EXCEPT !.next = "return",
                   !.ipDetection =
                      IF c.ipInfo.organization # <<>>
                        THEN checkOrganizationName(c.ipInfo.organization, c.ipInfo)
                        ELSE null]
  ELSE IF requiresVerification(i)
    THEN [c EXCEPT !.next = "reverse", !.asnIdx = i]
  ELSE [c EXCEPT !.next = "return", !.ipDetection = asnDetection(i, c.ipInfo)]

\* The body of checkIPAddress after `await analyzeIP`; an exception in it is
\* caught and checkIPAddress returns null.
afterIPInfo(c, ipInfo) ==
  IF ipInfo = Throw
    THEN [c EXCEPT !.ipInfo = ipInfo, !.next = "return", !.ipDetection = null]
  ELSE
    LET ranged == checkIPRanges(c.ipAddress, ipInfo) IN
    IF ranged # null
      THEN [c EXCEPT !.ipInfo = ipInfo, !.next = "return", !.ipDetection = ranged]
      ELSE afterAsn([c EXCEPT !.ipInfo = ipInfo], 1)

\* verifyGooglebot has returned isValidGoogle.
afterVerify(c, isValidGoogle) ==
  IF isValidGoogle
    THEN [c EXCEPT !.verified = "true", !.next = "return",
                   !.ipDetection = reverseDnsDetection(c.asnIdx, c.ipInfo)]
    ELSE afterAsn([c EXCEPT !.verified = "false"], c.asnIdx + 1)

\* verifyGooglebot after `await dns.reverse`: a rejection is caught (false);
\* otherwise the loop runs to the first allow-listed host name.
afterReverse(c, outcome) ==
  LET c1 == [c EXCEPT !.reverse = outcome.settled, !.hostnames = outcome.records] IN
  IF outcome.settled = "rejected" THEN afterVerify(c1, FALSE)
  ELSE
    LET h == nextGoogleHostname(outcome.records, 1) IN
    IF h = 0 THEN afterVerify(c1, FALSE)
    ELSE [c1 EXCEPT !.next = "resolve4", !.hostIdx = h]

\* Mutant of afterForwardError: a failed forward lookup ends the loop.
afterForwardError_Abort(hostnames, hostIdx) == 0

\* The inner catch of verifyGooglebot: the forward lookup of hostnames[hostIdx]
\* was rejected; the loop goes on with the next allow-listed host name (0: none).
afterForwardError(hostnames, hostIdx) == nextGoogleHostname(hostnames, hostIdx + 1)

\* verifyGooglebot after `await dns.resolve4(hostname)`.
afterResolve4(c, outcome) ==
  LET c1 == [c EXCEPT !.forward =
                 Append(@, [host |-> c.hostIdx, settled |-> outcome.settled,
                            records |-> outcome.records])]
  IN
  IF outcome.settled = "resolved" /\ addressesInclude(outcome.records, c.ipAddress)
    THEN afterVerify(c1, TRUE)
  ELSE
    LET h == IF outcome.settled = "rejected"
               THEN afterForwardError(c.hostnames, c.hostIdx)
               ELSE nextGoogleHostname(c.hostnames, c.hostIdx + 1)
    IN IF h = 0 THEN afterVerify(c1, FALSE)
       ELSE [c1 EXCEPT !.next = "resolve4", !.hostIdx = h]

\* A call's record when detectLLMCompany starts.
newCall(userAgent, ipAddress) ==
  LET userAgentDetection == checkUserAgent(userAgent) IN
  [ userAgent |-> userAgent, ipAddress |-> ipAddress,
    detectionResults |->
      IF userAgentDetection # null THEN <<userAgentDetection>> ELSE <<>>,
    ipPath |-> "none", cached |-> undefined, ipInfo |-> undefined,
    asnIdx |-> 0, reverse |-> "none", hostnames |-> <<>>, hostIdx |-> 0,
    forward |-> <<>>, verified |-> "none", ipDetection |-> null,
    next |-> "return" ]

\* The candidates detectLLMCompany hands to the arbiter.
candidates(c) ==
  c.detectionResults \o (IF c.ipDetection # null THEN <<c.ipDetection>> ELSE <<>>)

(***************************************************************************)
(* State of the other components (their actions are further down)          *)
(***************************************************************************)
VARIABLES
  userAgent,      \* checkUserAgent's argument, for the checks of the matcher alone
  uaDetection,    \* what checkUserAgent returned for it
  lookups,        \* analyzeIP calls suspended at `await this.fetchIPInfo`
  lastLookup,     \* the analyzeIP call that returned last, and what it did
  swept,          \* the keys the sweep removed, if it was the last operation
  requestHistory, \* EnhancedLLMDetector.requestHistory: key -> requests, firstSeen, urls
  lastBehavior,   \* the last operation on requestHistory, and what it did
  candidateList,  \* selectBestDetection's argument, for the checks of the arbiter alone
  arbitration,    \* which selectBestDetection was called on it, and what it returned
  activity,       \* the detectLLMActivity call of the enhanced detector, and where it is
  tracked,        \* the request trackLLMActivity is handling, and where it is
  logger          \* the ActivityLogger: its queue, flag and stats, its batches in
                  \* flight, and the rows of llm_activity

vars == << cache, requestCount, lastReset, clock, detectionStats, pc, call, result,
           requests, userAgent, uaDetection, lookups, lastLookup, swept,
           requestHistory, lastBehavior, candidateList, arbitration, activity, tracked,
           logger >>

analyzerVars == << cache, requestCount, lastReset, clock >>
detectorVars == << detectionStats, pc, call, result, requests >>
matcherVars == << userAgent, uaDetection >>
lookupVars == << lookups, lastLookup, swept >>
behaviorVars == << requestHistory, lastBehavior >>
arbiterVars == << candidateList, arbitration >>
enhancedVars == << activity, tracked, logger >>

NotCalled == [type |-> "not called"]
NoLookup == [type |-> "none"]

\* The state the constructors leave.
InitAnalyzer == cache = << >> /\ requestCount = 0 /\ lastReset = 0 /\ clock = 0
InitDetector ==
  /\ detectionStats = initialDetectionStats
  /\ pc = "idle" /\ call = NoCall /\ result = undefined /\ requests = 0
InitMatcher == userAgent = JsUndefined /\ uaDetection = NotCalled
InitLookups == lookups = << >> /\ lastLookup = NoLookup /\ swept = {}
NoBehavior == [op |-> "none"]
InitBehavior == requestHistory = << >> /\ lastBehavior = NoBehavior
InitArbiter == candidateList = << >> /\ arbitration = NotCalled
NoActivity == [stage |-> "none"]

\* The ActivityLogger its constructor leaves: the fields of the object, and
\* around them the processBatch executions suspended at an await, the rows
\* the database holds, the number of activities pushed, the activities whose
\* logLLMActivity call has returned true, and where a flush() call is
NewLogger ==
  [ logQueue |-> << >>, isProcessing |-> FALSE,
    stats |-> [totalLogged |-> 0, successCount |-> 0, errorCount |-> 0],
    executions |-> << >>, database |-> << >>, pushed |-> 0, returnedTrue |-> {},
    flush |-> "idle" ]

InitEnhanced == activity = NoActivity /\ tracked = NoActivity /\ logger = NewLogger

\* The call goes on as c.next says; when it returns, the arbiter selects and
\* the stats are updated.
Proceed(c) ==
  IF c.next = "return"
    THEN LET bestDetection == selectBestDetection(candidates(c)) IN
         /\ detectionStats' =
              IF bestDetection # null /\ bestDetection # undefined
                THEN updateStats(detectionStats, bestDetection)
                ELSE detectionStats
         /\ result' = bestDetection
         /\ pc' = "done"
         /\ call' = c
    ELSE /\ pc' = c.next
         /\ call' = c
         /\ UNCHANGED << detectionStats, result >>

\* detectLLMCompany(ua, ipAddress) up to its first await, or to its return
\* when it does not wait.
detectLLMCompanyBegin(ua, ipAddress) ==
  /\ pc \in {"idle", "done"}
  /\ IF falsy(ipAddress)
       THEN /\ Proceed(newCall(ua, ipAddress))
            /\ UNCHANGED << cache, requestCount, lastReset >>
       ELSE LET b == analyzeIPBegin(ipAddress, clock)
                c == [newCall(ua, ipAddress) EXCEPT !.ipPath = b.path,
                                                    !.cached = b.cached]
            IN /\ requestCount' = b.requestCount
               /\ lastReset' = b.lastReset
               /\ cache' = cache
               /\ IF b.returned
                    THEN Proceed(afterIPInfo(c, b.value))
                    ELSE Proceed([c EXCEPT !.next = "fetch"])

DetectLLMCompany(ua, ipAddress) ==
  /\ requests < MaxRequests
  /\ requests' = requests + 1
  /\ detectLLMCompanyBegin(ua, ipAddress)
  /\ UNCHANGED << clock, matcherVars, lookupVars, behaviorVars, arbiterVars, enhancedVars >>

FetchIPInfoSettles(outcome) ==
  /\ pc = "fetch"
  /\ LET e == analyzeIPEnd(call.ipAddress, call.cached, outcome, clock) IN
     /\ cache' = e.cache
     /\ requestCount' = e.requestCount
     /\ Proceed(afterIPInfo([call EXCEPT !.ipPath = e.path], e.value))
  /\ UNCHANGED << lastReset, clock, requests, matcherVars, lookupVars, behaviorVars, arbiterVars, enhancedVars >>

DnsReverseSettles(outcome) ==
  /\ pc = "reverse"
  /\ Proceed(afterReverse(call, outcome))
  /\ UNCHANGED << analyzerVars, requests, matcherVars, lookupVars, behaviorVars, arbiterVars, enhancedVars >>

DnsResolve4Settles(outcome) ==
  /\ pc = "resolve4"
  /\ Proceed(afterResolve4(call, outcome))
  /\ UNCHANGED << analyzerVars, requests, matcherVars, lookupVars, behaviorVars, arbiterVars, enhancedVars >>

Init == InitAnalyzer /\ InitDetector /\ InitMatcher /\ InitLookups /\ InitBehavior /\ InitArbiter /\ InitEnhanced

Next ==
  \/ \E ua \in DetectUserAgents, ip \in DetectIPs : DetectLLMCompany(ua, ip)
  \/ \E outcome \in GeoOutcomes : FetchIPInfoSettles(outcome)
  \/ \E outcome \in ReverseOutcomes : DnsReverseSettles(outcome)
  \/ \E outcome \in Resolve4Outcomes : DnsResolve4Settles(outcome)

Spec == Init /\ [][Next]_vars

(***************************************************************************)
(* The signature matcher alone: checkUserAgent applied to one User-Agent   *)
(* drawn from MatcherUserAgents.                                           *)
(***************************************************************************)
toUpperChar(c) ==
  IF \E i \in 1..26 : LowerCaseLetters[i] = c
    THEN UpperCaseLetters[CHOOSE i \in 1..26 : LowerCaseLetters[i] = c]
    ELSE c
toUpperCase(s) == [i \in 1..Len(s) |-> toUpperChar(s[i])]

AllSignatures ==
  UNION { { LLM_SIGNATURES[i].userAgents[j] : j \in DOMAIN LLM_SIGNATURES[i].userAgents }
          : i \in DOMAIN LLM_SIGNATURES }

\* Every registered signature: as written, lower-cased, upper-cased, inside a
\* browser-like string; the first signatures of two companies side by side;
\* strings with no signature; and values that are no string.
MatcherUserAgents ==
  { JsStr(s) : s \in AllSignatures }
  \cup { JsStr(toLowerCase(s)) : s \in AllSignatures }
  \cup { JsStr(toUpperCase(s)) : s \in AllSignatures }
  \cup { JsStr(<<"M","o","z","i","l","l","a","/","5",".","0"," ","(","c","o","m","p","a","t","i","b","l","e",";"," ">> \o s \o <<"/","1",".","0",";"," ","+","h","t","t","p","s",":","/","/","e","x","a","m","p","l","e",".","c","o","m","/","b","o","t",")">>) : s \in AllSignatures }
  \cup { JsStr(LLM_SIGNATURES[i].userAgents[1] \o <<" ">> \o LLM_SIGNATURES[j].userAgents[1])
         : i \in DOMAIN LLM_SIGNATURES, j \in DOMAIN LLM_SIGNATURES }
  \cup { UA_Chrome, JsStr(<<"c","u","r","l","/","8",".","4",".","0">>), JsStr(<<"G","P","T">>), JsStr(<<>>), JsUndefined, JsNumber }

InitMatcherCall ==
  /\ userAgent \in MatcherUserAgents
  /\ uaDetection = NotCalled
  /\ InitAnalyzer /\ InitDetector /\ InitLookups /\ InitBehavior /\ InitArbiter /\ InitEnhanced

CheckUserAgent ==
  /\ uaDetection = NotCalled
  /\ uaDetection' = checkUserAgent(userAgent)
  /\ UNCHANGED << userAgent, analyzerVars, detectorVars, lookupVars, behaviorVars, arbiterVars, enhancedVars >>

SpecMatcher == InitMatcherCall /\ [][CheckUserAgent]_vars

\* Some signature of registry entry i is contained, case-insensitively, in s.
ContainsSignatureOf(s, i) ==
  \E j \in DOMAIN LLM_SIGNATURES[i].userAgents :
    includes(toLowerCase(s), toLowerCase(LLM_SIGNATURES[i].userAgents[j]))

IsStringUA == userAgent.type = "string"

WellKnownBotNames == { highConfidenceSignatures[k] : k \in DOMAIN highConfidenceSignatures }

\* C3: the confidence of a signature match is 0.95 when the whole User-Agent
\* equals the matched signature ignoring case, else 0.9 when the matched
\* signature is one of the well-known bot names, else 0.8.
C3_ConfidenceOfSignatureMatch ==
  (uaDetection # NotCalled /\ uaDetection # null) =>
    uaDetection.confidence =
      IF toLowerCase(userAgent.s) = toLowerCase(uaDetection.matchedPattern) THEN 95
      ELSE IF toLowerCase(uaDetection.matchedPattern) \in WellKnownBotNames THEN 90
      ELSE 80

\* An upper-cased signature matched as the whole User-Agent, at 0.95.
C3_Witness ==
  /\ uaDetection # NotCalled /\ uaDetection # null
  /\ userAgent.s # uaDetection.matchedPattern
  /\ uaDetection.confidence = 95

(***************************************************************************)
(* Properties of detectLLMCompany / checkIPAddress / verifyGooglebot        *)
(* (specification Spec).  At pc = "done", call holds what the call saw:    *)
(* ipPath and ipInfo (analyzeIP), reverse / hostnames / forward (the DNS   *)
(* answers), verified (verifyGooglebot's result), ipDetection              *)
(* (checkIPAddress's result) and result (detectLLMCompany's).              *)
(***************************************************************************)
Methods == {"user_agent", "ip_range", "asn", "reverse_dns", "organization"}

IsAttribution(d) ==
  /\ {"company", "method", "confidence"} \subseteq DOMAIN d
  /\ d.company \in CompanyKeys
  /\ d.method \in Methods
  /\ d.confidence \in 0..100

Done == pc = "done"
Awaiting == pc \in {"fetch", "reverse", "resolve4"}

\* C1: detectLLMCompany ends, for every input and every answer (or failure,
\* or timeout) of the geolocation service and the resolver, with an
\* attribution or null and never with an exception: whatever it is waiting
\* for, it waits for one answer of one service, it makes at most one forward
\* lookup per host name, and a failed signal source does not remove the
\* candidate another source has produced.
C1_DetectIsTotal ==
  /\ Done => (result = null \/ IsAttribution(result))
  /\ Done => (call.detectionResults # <<>> => IsAttribution(result))
  /\ Awaiting =>
       /\ call.next = pc
       /\ Len(call.forward) < Cardinality(DOMAIN call.hostnames) + 1
       /\ pc = "resolve4" => call.hostIdx \in DOMAIN call.hostnames

\* The geolocation lookup failed and the reverse lookup was never made, or
\* the reverse lookup was rejected: the call has still returned.
C1_Witness ==
  /\ Done /\ call.reverse = "rejected"
  /\ call.userAgent = UA_GPTBot
  /\ IsAttribution(result)

InRangeOf(ipAddress, i) ==
  \E r \in DOMAIN LLM_SIGNATURES[i].ipRanges :
    ipRangeCheck(ipAddress, LLM_SIGNATURES[i].ipRanges[r])
InNoRange(ipAddress) == \A i \in DOMAIN LLM_SIGNATURES : ~InRangeOf(ipAddress, i)

\* C4: for an IP inside a registered CIDR range checkIPAddress returns
\* method ip_range, confidence 0.9, for the first company in registry order
\* that owns a containing range, whatever the IP lookup gave and whether or
\* not it succeeded.
C4_RangeMatchWins ==
  Done =>
    \A i \in DOMAIN LLM_SIGNATURES :
      ( /\ ~falsy(call.ipAddress)
        /\ InRangeOf(call.ipAddress, i)
        /\ \A k \in 1..(i - 1) : ~InRangeOf(call.ipAddress, k) ) =>
        /\ call.ipDetection # null
        /\ call.ipDetection.company = LLM_SIGNATURES[i].company
        /\ call.ipDetection.method = "ip_range"
        /\ call.ipDetection.confidence = 90

\* An IP in Perplexity's range whose lookup failed is still attributed by range.
C4_Witness ==
  /\ Done /\ call.ipAddress = IP_Perplexity /\ call.ipPath = "failed"
  /\ call.ipDetection # null /\ call.ipDetection.method = "ip_range"
  /\ call.ipDetection.company = "perplexity"

GoogleASN == LLM_SIGNATURES[CHOOSE i \in DOMAIN LLM_SIGNATURES :
                              LLM_SIGNATURES[i].company = "google"].asn

HasIPInfo == call # NoCall /\ call.ipInfo # undefined /\ call.ipInfo # Throw

\* Some orgPatterns entry matches the organization (lower-cased).
OrgMatches(organization) ==
  \E i \in DOMAIN orgPatterns : \E j \in DOMAIN orgPatterns[i].patterns :
    includes(toLowerCase(organization), orgPatterns[i].patterns[j])

\* C5: when IPInfo.asn is Google's ASN and DNS verification did not succeed,
\* checkIPAddress returns no attribution of google by reverse_dns or asn; for
\* an IP in no range it goes on to the organization check, whose result it
\* returns.
C5_UnverifiedGoogleAsn ==
  (Done /\ HasIPInfo /\ call.ipInfo.asn = GoogleASN /\ call.verified # "true") =>
    /\ ~( /\ call.ipDetection # null
          /\ call.ipDetection.company = "google"
          /\ call.ipDetection.method \in {"reverse_dns", "asn"} )
    /\ InNoRange(call.ipAddress) =>
         /\ call.verified = "false"
         /\ IF OrgMatches(call.ipInfo.organization)
              THEN /\ call.ipDetection # null
                   /\ call.ipDetection.method = "organization"
              ELSE call.ipDetection = null

\* Google's ASN, verification failed, and the organization check attributed.
C5_Witness ==
  /\ Done /\ HasIPInfo /\ call.ipInfo.asn = GoogleASN /\ call.verified = "false"
  /\ call.ipDetection # null
  /\ call.ipDetection.method = "organization" /\ call.ipDetection.company = "google"

AllowListed(hostname) ==
  \E d \in DOMAIN validGoogleDomains :
    LET h == toLowerCase(hostname)
        suffix == validGoogleDomains[d]
    IN Len(h) >= Len(suffix)
       /\ \A n \in 1..Len(suffix) : h[Len(h) - Len(suffix) + n] = suffix[n]

\* The forward lookup f came back with the call's own address.
RoundTrips(f) ==
  f.settled = "resolved" /\ \E a \in DOMAIN f.records : f.records[a] = call.ipAddress.s

\* C6: verifyGooglebot returns true only if some host name returned by
\* reverse(ip) ends with an allow-listed domain and forward-resolves to
\* addresses that contain ip; a reverse_dns attribution is returned only
\* after that.
C6_VerifiedOnlyByRoundTrip ==
  /\ (call # NoCall /\ call.verified = "true") =>
       \E n \in DOMAIN call.forward :
         /\ call.forward[n].host \in DOMAIN call.hostnames
         /\ AllowListed(call.hostnames[call.forward[n].host])
         /\ RoundTrips(call.forward[n])
  /\ (Done /\ call.ipDetection # null /\ call.ipDetection.method = "reverse_dns") =>
       call.verified = "true"
  /\ (Done /\ result # null /\ result.method = "reverse_dns") => call.verified = "true"

\* A reverse record under a look-alike domain was returned and verification
\* has failed.
C6_Witness ==
  /\ Done /\ call.hostnames = <<Host_Lookalike>> /\ call.verified = "false"

Verified == call # NoCall /\ call.verified # "none"

\* The positions of the allow-listed host names in the reverse answer, and
\* the n-th of them.
Candidates == { h \in DOMAIN call.hostnames : AllowListed(call.hostnames[h]) }
CandidateNo(n) ==
  CHOOSE h \in Candidates : Cardinality({ g \in Candidates : g < h }) = n - 1

\* The forward lookups made are those of the candidates, in order, and each
\* but the last failed to round-trip.
ForwardLookupsInOrder ==
  /\ Len(call.forward) <= Cardinality(Candidates)
  /\ \A n \in DOMAIN call.forward :
       /\ call.forward[n].host = CandidateNo(n)
       /\ n < Len(call.forward) => ~RoundTrips(call.forward[n])

\* C7 as stated: true at the first allow-listed candidate that round-trips;
\* false if no candidate verifies or if the reverse lookup or a forward
\* lookup errors.
C7_AsStated ==
  Verified =>
    /\ ForwardLookupsInOrder
    /\ call.verified = "true" <=>
         (call.forward # <<>> /\ RoundTrips(call.forward[Len(call.forward)]))
    /\ ( \/ call.reverse = "rejected"
         \/ \E n \in DOMAIN call.forward : call.forward[n].settled = "rejected" )
         => call.verified = "false"

\* C7 (amended): verifyGooglebot returns true at the first allow-listed
\* candidate that round-trips, making no further lookup; it returns false if
\* the reverse lookup errors (no forward lookup is then made) or if no
\* candidate round-trips; a forward lookup that errors only rules out its own
\* candidate, and the next candidate is still tried.
C7_FirstRoundTripOrFalse ==
  Verified =>
    /\ ForwardLookupsInOrder
    /\ call.verified = "true" <=>
         (call.forward # <<>> /\ RoundTrips(call.forward[Len(call.forward)]))
    /\ call.reverse = "rejected" => (call.verified = "false" /\ call.forward = <<>>)
    /\ call.verified = "false" => Len(call.forward) = Cardinality(Candidates)

\* The first candidate's forward lookup errored and the second verified.
C7_Witness ==
  /\ Verified /\ call.verified = "true"
  /\ Len(call.forward) = 2
  /\ call.forward[1].settled = "rejected"

\* C8: for an IP in no registered range, an ASN equal to that of a company
\* that needs no verification gives that company with method asn, confidence
\* 0.7, even if the organization name matches a pattern; an organization
\* match (confidence 0.6) is returned only when no range or ASN attribution
\* was emitted; otherwise checkIPAddress returns null.
C8_StrictPriority ==
  (Done /\ HasIPInfo /\ InNoRange(call.ipAddress)) =>
    LET asnOwners == { i \in DOMAIN LLM_SIGNATURES :
                         /\ LLM_SIGNATURES[i].asn # "null"
                         /\ LLM_SIGNATURES[i].asn = call.ipInfo.asn }
        unverified == { i \in asnOwners : LLM_SIGNATURES[i].company # "google" }
        d == call.ipDetection
    IN /\ \A i \in unverified :
            /\ d # null /\ d.company = LLM_SIGNATURES[i].company
            /\ d.method = "asn" /\ d.confidence = 70
       /\ (d # null /\ d.method = "organization") =>
            /\ d.confidence = 60
            /\ unverified = {}
            /\ call.verified # "true"
            /\ OrgMatches(call.ipInfo.organization)
       /\ (unverified = {} /\ call.verified # "true"
             /\ ~OrgMatches(call.ipInfo.organization)) => d = null
       /\ d # null => d.method \in {"asn", "reverse_dns", "organization"}

\* Anthropic's ASN with an organization name that matches Meta's pattern:
\* the ASN attribution is returned.
C8_Witness ==
  /\ Done /\ HasIPInfo /\ call.ipAddress = IP_Public
  /\ call.ipInfo.organization = Org_Facebook
  /\ call.ipDetection # null
  /\ call.ipDetection.method = "asn" /\ call.ipDetection.company = "anthropic"

(***************************************************************************)
(* The IP information provider alone (specification SpecAnalyzer): calls   *)
(* of analyzeIP that may overlap, the clock, the hourly sweep and           *)
(* clearCache.  lastLookup records, for the call that returned last, what  *)
(* it found when it started and what it did.                               *)
(***************************************************************************)
\* Calls that may be suspended in fetchIPInfo at the same time.
MaxInFlight == 1
\* Readings of Date.now(): construction time, and the instants just before,
\* at and just after the cache timeout (and the quota day) has elapsed.
Instants == { 0, cacheTimeout - 1, cacheTimeout, cacheTimeout + 1 }

LookupIPs == { IP_Public, IP_OpenAI, IP_Loopback, IP_Unknown }

LookupOutcomes ==
  { GeoReject("timeout"),
    GeoResponse(TRUE, << >>, << >>, "null"),
    GeoResponse(FALSE, Country_US, Org_Google, "AS15169") }

\* What a call finds when it starts: the cache entry of its address, whether
\* that entry is less than 24 hours old, and whether the quota is used up
\* (the counter at its maximum, less than 24 hours after the last reset).
atStart(ipAddress) ==
  LET entry == IF ipAddress.type = "string" THEN cacheGet(ipAddress.s) ELSE undefined IN
  [ ipAddress |-> ipAddress, startedAt |-> clock, entry |-> entry,
    fresh |-> entry # undefined /\ clock - entry.timestamp < cacheTimeout,
    exhausted |-> requestCount = maxRequestsPerDay /\ clock - lastReset < cacheTimeout,
    afterSweep |-> ipAddress.type = "string" /\ ipAddress.s \in swept ]

\* How a returning call relates to the call that returned before it: "none"
\* unless that call was for the same address and started less than 24 hours
\* earlier, and then whether the two returned the same IPInfo.
previousOf(s, value) ==
  IF \/ lastLookup = NoLookup
     \/ lastLookup.ipAddress # s.ipAddress
     \/ ~(s.startedAt - lastLookup.startedAt < cacheTimeout)
    THEN "none"
  ELSE IF lastLookup.value = value THEN "identical" ELSE "different"

\* analyzeIP(ipAddress) up to its return, or to `await this.fetchIPInfo`
analyzeIPStarts(ipAddress) ==
  /\ LET b == analyzeIPBegin(ipAddress, clock)
         s == atStart(ipAddress)
     IN /\ requestCount' = b.requestCount
        /\ lastReset' = b.lastReset
        /\ cache' = cache
        /\ IF b.returned
             THEN /\ lookups' = lookups
                  /\ lastLookup' =
                       s @@ [ path |-> b.path, value |-> b.value, external |-> FALSE,
                              lookupFailed |-> FALSE,
                              countChanged |-> b.requestCount # requestCount,
                              cacheChanged |-> FALSE, stored |-> undefined,
                              previous |-> previousOf(s, b.value) ]
             ELSE /\ lookups' = Append(lookups, s @@ [cached |-> b.cached])
                  /\ lastLookup' = lastLookup
  /\ swept' = {}
  /\ UNCHANGED << clock, detectorVars, matcherVars, behaviorVars, arbiterVars, enhancedVars >>

AnalyzeIP(ipAddress) ==
  /\ Len(lookups) < MaxInFlight
  /\ analyzeIPStarts(ipAddress)

LookupSettles(k, outcome) ==
  /\ k \in DOMAIN lookups
  /\ LET l == lookups[k]
         e == analyzeIPEnd(l.ipAddress, l.cached, outcome, clock)
     IN /\ cache' = e.cache
        /\ requestCount' = e.requestCount
        /\ lookups' = SubSeq(lookups, 1, k - 1) \o SubSeq(lookups, k + 1, Len(lookups))
        /\ lastLookup' =
             [ ipAddress |-> l.ipAddress, startedAt |-> l.startedAt, entry |-> l.entry,
               fresh |-> l.fresh, exhausted |-> l.exhausted, afterSweep |-> l.afterSweep,
               path |-> e.path, value |-> e.value, external |-> TRUE,
               lookupFailed |-> outcome.settled = "rejected" \/ outcome.data.error,
               countChanged |-> e.requestCount # requestCount,
               cacheChanged |-> e.cache # cache,
               stored |-> IF e.path = "fetched" THEN e.cache[l.ipAddress.s] ELSE undefined,
               previous |-> previousOf(l, e.value) ]
  /\ swept' = {}
  /\ UNCHANGED << lastReset, clock, detectorVars, matcherVars, behaviorVars, arbiterVars, enhancedVars >>

\* Time passes.
Tick ==
  /\ \E t \in Instants : t > clock /\ clock' = t
  /\ swept' = {}
  /\ UNCHANGED << cache, requestCount, lastReset, lookups, lastLookup, detectorVars, matcherVars, behaviorVars, arbiterVars, enhancedVars >>

\* Mutant of cleanExpiredCache: every entry is removed, expired or not.
cleanExpiredCache_All(c, now) == << >>

\* The cache cleanExpiredCache leaves of the cache c
cleanExpiredCache(c, now) ==
  [ key \in { k \in DOMAIN c : ~(now - c[k].timestamp > cacheTimeout) } |-> c[key] ]

\* cleanExpiredCache, run by the hourly timer
CleanExpiredCache ==
  /\ cache' = cleanExpiredCache(cache, clock)
  /\ cache' # cache
  /\ swept' = DOMAIN cache \ DOMAIN cache'
  /\ UNCHANGED << requestCount, lastReset, clock, lookups, lastLookup, detectorVars, matcherVars, behaviorVars, arbiterVars, enhancedVars >>

ClearCache ==
  /\ cache # << >>
  /\ cache' = << >>
  /\ swept' = {}
  /\ UNCHANGED << requestCount, lastReset, clock, lookups, lastLookup, detectorVars, matcherVars, behaviorVars, arbiterVars, enhancedVars >>

NextAnalyzer ==
  \/ \E ip \in LookupIPs : AnalyzeIP(ip)
  \/ \E k \in 1..MaxInFlight, outcome \in LookupOutcomes : LookupSettles(k, outcome)
  \/ Tick
  \/ CleanExpiredCache
  \/ ClearCache

SpecAnalyzer == Init /\ [][NextAnalyzer]_vars

(***************************************************************************)
(* Properties of the IP information provider                               *)
(***************************************************************************)
isPublicIP(ip) == isValidIP(ip) /\ ~isPrivateIP(ip)

Returned == lastLookup # NoLookup

\* The IPInfo of a failed or refused lookup of ip
IsUnknownSentinel(info, ip) ==
  /\ info.ip = ip
  /\ info.country = Unknown
  /\ info.organization = Unknown
  /\ info.asn = "null"
  /\ info.error

\* C9 as the specification states it: for any public IP, if two resolve calls
\* for that IP occur less than 24 hours apart, the second returns the same
\* IPInfo as the first, makes no external call and leaves the quota counter
\* unchanged.  (Stated for two calls that return one after the other.)
C9_AsStated ==
  (Returned /\ isPublicIP(lastLookup.ipAddress) /\ lastLookup.previous # "none")
    => /\ lastLookup.previous = "identical"
       /\ ~lastLookup.external
       /\ ~lastLookup.countChanged

\* C9, corrected: a successful external lookup stores the IPInfo it returns,
\* and a resolve call for a public IP that starts while the cache holds an
\* entry for that IP less than 24 hours old returns that entry's IPInfo, makes
\* no external call, and changes neither the quota counter nor the cache.
C9_FreshEntryIsServed ==
  /\ (Returned /\ lastLookup.path = "fetched")
       => lastLookup.stored.data = lastLookup.value
  /\ (Returned /\ isPublicIP(lastLookup.ipAddress) /\ lastLookup.fresh)
       => /\ lastLookup.path = "cache"
          /\ lastLookup.value = lastLookup.entry.data
          /\ ~lastLookup.external
          /\ ~lastLookup.countChanged
          /\ ~lastLookup.cacheChanged

\* A call one millisecond short of 24 hours after the lookup that stored the
\* entry is served from the cache.
C9_Witness ==
  /\ Returned
  /\ isPublicIP(lastLookup.ipAddress)
  /\ lastLookup.fresh
  /\ lastLookup.path = "cache"
  /\ lastLookup.startedAt - lastLookup.entry.timestamp = cacheTimeout - 1

\* C10: once the daily quota is exhausted (the counter at its maximum, less
\* than 24 hours since the last reset), a resolve call for a public IP that is
\* not freshly cached makes no external call, returns the cached IPInfo of that
\* IP if the cache holds one (however old) and the unknown sentinel otherwise,
\* and changes neither the cache nor the counter.
C10_ExhaustedQuota ==
  (Returned /\ isPublicIP(lastLookup.ipAddress)
     /\ lastLookup.exhausted /\ ~lastLookup.fresh)
    => /\ ~lastLookup.external
       /\ lastLookup.path = "quota"
       /\ IF lastLookup.entry # undefined
            THEN lastLookup.value = lastLookup.entry.data
            ELSE IsUnknownSentinel(lastLookup.value, lastLookup.ipAddress)
       /\ ~lastLookup.countChanged
       /\ ~lastLookup.cacheChanged

\* The quota is exhausted and the entry of the address has expired: the stale
\* IPInfo is returned.
C10_Witness ==
  /\ Returned
  /\ isPublicIP(lastLookup.ipAddress)
  /\ lastLookup.exhausted
  /\ ~lastLookup.fresh
  /\ lastLookup.entry # undefined
  /\ lastLookup.path = "quota"
  /\ lastLookup.value = lastLookup.entry.data

(***************************************************************************)
(* The IP information provider over private, reserved and malformed        *)
(* addresses (specification SpecAddresses): the operations of SpecAnalyzer *)
(* with analyzeIP called on the addresses below.                           *)
(***************************************************************************)
IP_TenNet == JsStr(<<"1","0",".","0",".","0",".","1">>)
IP_Private172 == JsStr(<<"1","7","2",".","1","6",".","0",".","1">>)
IP_Private192 == JsStr(<<"1","9","2",".","1","6","8",".","1",".","1">>)
IP_LinkLocal == JsStr(<<"1","6","9",".","2","5","4",".","1",".","1">>)
\* The IPv6 loopback address, compressed and written out
IP_Loopback6 == JsStr(<<":",":","1">>)
IP_Loopback6Full == JsStr(<<"0",":","0",":","0",":","0",":","0",":","0",":","0",":","1">>)
\* An IPv6 link-local address, written out
IP_LinkLocal6 == JsStr(<<"f","e","8","0",":","0",":","0",":","0",":","0",":","0",":","0",":","1">>)

PrivateAddresses ==
  { IP_TenNet, IP_Private172, IP_Private192, IP_Loopback, IP_LinkLocal,
    IP_Loopback6, IP_Loopback6Full, IP_LinkLocal6 }

\* Strings that are no IPv4 or IPv6 literal
IP_Empty == JsStr(<< >>)
IP_OctetTooBig == JsStr(<<"9","9","9",".","1",".","1",".","1">>)
IP_ThreeOctets == JsStr(<<"1",".","2",".","3">>)
IP_FiveOctets == JsStr(<<"1",".","2",".","3",".","4",".","5">>)
IP_Hostname == JsStr(<<"a",".","b",".","c",".","d">>)

NotIPLiterals ==
  { IP_Unknown, IP_Empty, IP_OctetTooBig, IP_ThreeOctets, IP_FiveOctets, IP_Hostname }

AddressIPs == {IP_Public} \cup PrivateAddresses \cup NotIPLiterals

NextAddresses ==
  \/ \E ip \in AddressIPs : AnalyzeIP(ip)
  \/ \E k \in 1..MaxInFlight, outcome \in LookupOutcomes : LookupSettles(k, outcome)
  \/ Tick
  \/ CleanExpiredCache
  \/ ClearCache

SpecAddresses == Init /\ [][NextAddresses]_vars

\* The IPInfo analyzeIP returns for a private address
IsPrivateSentinel(info, ip) ==
  /\ info.ip = ip
  /\ info.country = PrivateNetwork
  /\ info.organization = PrivateNetwork
  /\ info.asn = "null"
  /\ info.isPrivate

\* C11 as the specification states it: for every private or reserved address
\* (RFC1918 ranges, loopback, link-local, and their IPv6 equivalents), in
\* every state, resolve returns the private-network sentinel without making
\* an external call, without writing the cache and without changing the
\* quota counter.
C11_AsStated ==
  (Returned /\ lastLookup.ipAddress \in PrivateAddresses)
    => /\ IsPrivateSentinel(lastLookup.value, lastLookup.ipAddress)
       /\ ~lastLookup.external
       /\ ~lastLookup.cacheChanged
       /\ ~lastLookup.countChanged

\* C12: for any string that is not a valid IPv4 or IPv6 literal, resolve
\* returns the unknown sentinel immediately: no external call is made (none
\* is ever in flight for such a string), nothing is written to the cache and
\* the quota counter is unchanged.
C12_InvalidAddress ==
  /\ \A k \in DOMAIN lookups : lookups[k].ipAddress \notin NotIPLiterals
  /\ (Returned /\ lastLookup.ipAddress \in NotIPLiterals)
       => /\ lastLookup.path = "invalid"
          /\ IsUnknownSentinel(lastLookup.value, lastLookup.ipAddress)
          /\ lastLookup.value.analysisTimestamp = lastLookup.startedAt
          /\ ~lastLookup.external
          /\ ~lastLookup.cacheChanged
          /\ ~lastLookup.countChanged

\* An octet out of range: 999.1.1.1 is answered with the unknown sentinel,
\* here while the cache holds entries and lookups have been counted.
C12_Witness ==
  /\ Returned
  /\ lastLookup.ipAddress = IP_OctetTooBig
  /\ lastLookup.path = "invalid"
  /\ cache # << >>
  /\ requestCount > 0

\* C13: resolve never throws: when the external lookup fails (the request is
\* rejected or times out, or the service answers with an error) the call
\* returns the IPInfo of the cache entry it found for that IP, if it found
\* one, and the unknown sentinel otherwise; the failed call leaves both the
\* cache and the quota counter unchanged.
C13_FailedLookupFallsBack ==
  /\ Returned => lastLookup.value # Throw
  /\ (Returned /\ lastLookup.lookupFailed)
       => /\ lastLookup.external
          /\ IF lastLookup.entry # undefined
               THEN lastLookup.value = lastLookup.entry.data
               ELSE IsUnknownSentinel(lastLookup.value, lastLookup.ipAddress)
          /\ ~lastLookup.cacheChanged
          /\ ~lastLookup.countChanged

\* The lookup of an address whose entry has expired fails: the expired IPInfo
\* is returned.
C13_Witness ==
  /\ Returned
  /\ lastLookup.lookupFailed
  /\ lastLookup.entry # undefined
  /\ lastLookup.value = lastLookup.entry.data

\* The call returned the IPInfo of a cache entry that was 24 hours old or
\* older when the call started.
ServedPastTimeout ==
  /\ Returned
  /\ lastLookup.entry # undefined
  /\ lastLookup.startedAt - lastLookup.entry.timestamp >= cacheTimeout
  /\ lastLookup.value = lastLookup.entry.data

\* C14 as the specification states it: resolve never returns a cached IPInfo
\* whose age is 24 hours or more, except as the last-resort fallback of a
\* call whose own external lookup failed or timed out.
C14_AsStated ==
  ServedPastTimeout => lastLookup.lookupFailed

\* C14, corrected: resolve returns a cached IPInfo whose age is 24 hours or
\* more only as a fallback, either of a call whose own external lookup failed
\* or timed out, or of a call that the exhausted quota kept from making an
\* external lookup; a call answered on the cache path always returns an entry
\* less than 24 hours old.
C14_StaleOnlyAsFallback ==
  /\ ServedPastTimeout
       => \/ lastLookup.lookupFailed
          \/ ~lastLookup.external /\ lastLookup.path = "quota"
  /\ (Returned /\ lastLookup.path = "cache")
       => lastLookup.startedAt - lastLookup.entry.timestamp < cacheTimeout

\* An entry exactly 24 hours old is returned to a call refused by the quota.
C14_Witness ==
  /\ ServedPastTimeout
  /\ lastLookup.startedAt - lastLookup.entry.timestamp = cacheTimeout
  /\ lastLookup.path = "quota"

\* What a call of analyzeIP for ip would do, started now with the cache c:
\* whether it makes the external call, and the value it returns (for each way
\* the external call can settle).
readOutcome(c, ip) ==
  LET b == analyzeIPBeginIn(c, ip, clock) IN
  [ external |-> ~b.returned,
    value |-> IF b.returned THEN b.value ELSE undefined,
    settled |-> IF b.returned THEN << >>
                ELSE [ outcome \in LookupOutcomes |->
                         analyzeIPEnd(ip, b.cached, outcome, clock).value ] ]

\* C15 as the specification states it: for any state and any IP, the value
\* resolve(ip) returns and whether it makes an external call are the same
\* whether or not the cache sweep (cleanExpiredCache) ran just before the call.
C15_AsStated ==
  \A ip \in LookupIPs :
    readOutcome(cleanExpiredCache(cache, clock), ip) = readOutcome(cache, ip)

\* C15, corrected: whether resolve(ip) makes an external call, and the value
\* it returns from a fresh cache entry or from a successful lookup, are the
\* same whether or not the sweep ran just before the call.  Only the fallback
\* value differs: where the call would have fallen back to an entry more than
\* 24 hours old (its lookup failed, or the quota refused it), after the sweep
\* it returns the unknown sentinel instead.
C15_SweepChangesOnlyFallback ==
  \A ip \in LookupIPs :
    LET before == readOutcome(cache, ip)
        after == readOutcome(cleanExpiredCache(cache, clock), ip)
        entry == IF ip.type = "string" THEN cacheGet(ip.s) ELSE undefined
        removed == /\ isPublicIP(ip)
                   /\ entry # undefined
                   /\ clock - entry.timestamp > cacheTimeout
        fallback(v, w) ==
          IF removed /\ v = entry.data THEN IsUnknownSentinel(w, ip) ELSE w = v
    IN /\ after.external = before.external
       /\ IF before.external
            THEN \A outcome \in LookupOutcomes :
                   fallback(before.settled[outcome], after.settled[outcome])
            ELSE fallback(before.value, after.value)
       /\ ~removed => after = before

\* The sweep has just removed the expired entry of an address, and the call
\* for that address, refused by the quota, returned the unknown sentinel
\* where it would have returned the expired IPInfo.
C15_Witness ==
  /\ Returned
  /\ lastLookup.afterSweep
  /\ lastLookup.path = "quota"
  /\ lastLookup.entry = undefined
  /\ IsUnknownSentinel(lastLookup.value, lastLookup.ipAddress)

(***************************************************************************)
(* The behavioural analyser: EnhancedLLMDetector.analyzeBehavior and        *)
(* cleanupOldRequests over requestHistory                                   *)
(***************************************************************************)
WebResearchBots == <<"W","e","b"," ","R","e","s","e","a","r","c","h"," ","B","o","t","s">>

\* `${clientIP}:${userAgent}`
behaviorKey(clientIP, ua) == clientIP \o <<":">> \o ua

\* history.requests.filter(req => now - req.timestamp < 60000)
recentRequests(reqs, now) == SelectSeq(reqs, LAMBDA req : now - req.timestamp < 60000)

\* The detection objects analyzeBehavior returns; details carries the number
\* the message is built from.
BehaviorDetection(method, confidence, n) ==
  [ company |-> "web_research", companyName |-> WebResearchBots,
    method |-> method, confidence |-> confidence, details |-> n ]

\* Mutant of analyzeBehavior: ten recent requests are already rapid (>= 10).
analyzeBehavior_RapidAtTen(h, clientIP, ua, url, now) ==
  LET key == behaviorKey(clientIP, ua)
      h1 == IF key \in DOMAIN h THEN h
            ELSE h @@ (key :> [requests |-> << >>, firstSeen |-> now, urls |-> {}])
      history == [ h1[key] EXCEPT !.requests = Append(@, [timestamp |-> now, url |-> url]),
                                  !.urls = @ \cup {url} ]
      recent == recentRequests(history.requests, now)
  IN [ requestHistory |-> [h1 EXCEPT ![key] = history],
       result |-> IF Len(recent) >= 10
                    THEN BehaviorDetection("rapid_requests", 70, Len(recent))
                  ELSE IF Cardinality(history.urls) > 20
                    THEN BehaviorDetection("systematic_crawling", 60, Cardinality(history.urls))
                  ELSE null ]

\* Mutant of analyzeBehavior: twenty distinct URLs are already systematic
\* crawling (>= 20).
analyzeBehavior_CrawlAtTwenty(h, clientIP, ua, url, now) ==
  LET key == behaviorKey(clientIP, ua)
      h1 == IF key \in DOMAIN h THEN h
            ELSE h @@ (key :> [requests |-> << >>, firstSeen |-> now, urls |-> {}])
      history == [ h1[key] EXCEPT !.requests = Append(@, [timestamp |-> now, url |-> url]),
                                  !.urls = @ \cup {url} ]
      recent == recentRequests(history.requests, now)
  IN [ requestHistory |-> [h1 EXCEPT ![key] = history],
       result |-> IF Len(recent) > 10
                    THEN BehaviorDetection("rapid_requests", 70, Len(recent))
                  ELSE IF Cardinality(history.urls) >= 20
                    THEN BehaviorDetection("systematic_crawling", 60, Cardinality(history.urls))
                  ELSE null ]

\* analyzeBehavior on the map h: the map it leaves and what it returns.
analyzeBehavior(h, clientIP, ua, url, now) ==
  LET key == behaviorKey(clientIP, ua)
      h1 == IF key \in DOMAIN h THEN h
            ELSE h @@ (key :> [requests |-> << >>, firstSeen |-> now, urls |-> {}])
      history == [ h1[key] EXCEPT !.requests = Append(@, [timestamp |-> now, url |-> url]),
                                  !.urls = @ \cup {url} ]
      recent == recentRequests(history.requests, now)
  IN [ requestHistory |-> [h1 EXCEPT ![key] = history],
       result |-> IF Len(recent) > 10
                    THEN BehaviorDetection("rapid_requests", 70, Len(recent))
                  ELSE IF Cardinality(history.urls) > 20
                    THEN BehaviorDetection("systematic_crawling", 60, Cardinality(history.urls))
                  ELSE null ]

\* Mutant of cleanupOldRequests: a record left without entries is not deleted.
cleanupOldRequests_KeepsEmpty(h, now) ==
  LET cutoff == now - 3600000 IN
  [ key \in DOMAIN h |->
      [ h[key] EXCEPT !.requests = SelectSeq(@, LAMBDA req : req.timestamp > cutoff) ] ]

\* Mutant of cleanupOldRequests: an entry exactly one hour old is kept (>=).
cleanupOldRequests_KeepAtCutoff(h, now) ==
  LET cutoff == now - 3600000
      filtered == [ key \in DOMAIN h |->
                      [ h[key] EXCEPT !.requests =
                          SelectSeq(@, LAMBDA req : req.timestamp >= cutoff) ] ]
  IN [ key \in { k \in DOMAIN h : Len(filtered[k].requests) # 0 } |-> filtered[key] ]

\* cleanupOldRequests on the map h: the map it leaves.
cleanupOldRequests(h, now) ==
  LET cutoff == now - 3600000
      filtered == [ key \in DOMAIN h |->
                      [ h[key] EXCEPT !.requests =
                          SelectSeq(@, LAMBDA req : req.timestamp > cutoff) ] ]
  IN [ key \in { k \in DOMAIN h : Len(filtered[k].requests) # 0 } |-> filtered[key] ]

\* The requests recorded under key (none when the key has no record)
requestsOf(h, key) == IF key \in DOMAIN h THEN h[key].requests ELSE << >>
urlsOf(h, key) == IF key \in DOMAIN h THEN h[key].urls ELSE {}

\* One call of analyzeBehavior.  lastBehavior records what the call found and
\* did: how many of the key's entries, the new one included, are less than
\* 60 s old, how many distinct URLs the key has, whether the URL was new, and
\* whether every earlier entry of the key is still in its history.
observeBehavior(clientIP, ua, url) ==
  LET key == behaviorKey(clientIP, ua)
      r == analyzeBehavior(requestHistory, clientIP, ua, url, clock)
      before == requestsOf(requestHistory, key)
      after == requestsOf(r.requestHistory, key)
  IN /\ requestHistory' = r.requestHistory
     /\ lastBehavior' =
          [ op |-> "observe", at |-> clock, key |-> key, url |-> url,
            result |-> r.result,
            recent |-> 1 + Cardinality({ i \in DOMAIN before :
                                           clock - before[i].timestamp < 60000 }),
            distinct |-> Cardinality(urlsOf(requestHistory, key) \cup {url}),
            added |-> url \notin urlsOf(requestHistory, key),
            kept |-> Len(after) = Len(before) + 1
                       /\ SubSeq(after, 1, Len(before)) = before ]

AnalyzeBehavior(clientIP, ua, url) ==
  /\ observeBehavior(clientIP, ua, url)
  /\ UNCHANGED << analyzerVars, detectorVars, matcherVars, lookupVars, arbiterVars, enhancedVars >>

\* cleanupOldRequests, run by the 5-minute timer
CleanupOldRequests ==
  /\ requestHistory' = cleanupOldRequests(requestHistory, clock)
  /\ requestHistory' # requestHistory
  /\ lastBehavior' = [op |-> "cleanup", at |-> clock]
  /\ UNCHANGED << analyzerVars, detectorVars, matcherVars, lookupVars, arbiterVars, enhancedVars >>

(***************************************************************************)
(* Request rate and retention (specification SpecBehavior): one client     *)
(* asks for the same URL again and again, at the instants around the       *)
(* 60-second window and the one-hour horizon.                              *)
(***************************************************************************)
\* Longest history of a key
MaxHistory == 12

BehaviorInstants == { 0, 1, 60000, 60001, 3600000, 3600001 }

Client_IP == IP_Public.s
Client_UA == UA_Chrome.s
ClientKey == behaviorKey(Client_IP, Client_UA)

Url(n) == <<"/","p","a","g","e","/">> \o <<DecimalDigits[(n \div 10) + 1], DecimalDigits[(n % 10) + 1]>>

BehaviorTick ==
  /\ \E t \in BehaviorInstants : t > clock /\ clock' = t
  /\ UNCHANGED << cache, requestCount, lastReset, detectorVars, matcherVars, lookupVars,
                  behaviorVars, arbiterVars, enhancedVars >>

NextBehavior ==
  \/ /\ Len(requestsOf(requestHistory, ClientKey)) < MaxHistory
     /\ AnalyzeBehavior(Client_IP, Client_UA, Url(1))
  \/ BehaviorTick
  \/ CleanupOldRequests

SpecBehavior == Init /\ [][NextBehavior]_vars

Observed == lastBehavior.op = "observe"

\* C16: for a single (IP, User-Agent) key, observe returns rapid_requests
\* (confidence 0.7) on a call exactly when the number of that key's history
\* entries with now - timestamp < 60 s, counting the entry just appended, is
\* greater than 10: the 11th request within 60 seconds triggers it and the
\* 10th does not.
C16_RapidRequests ==
  Observed =>
    /\ lastBehavior.recent > 10
         <=> lastBehavior.result # null /\ lastBehavior.result.method = "rapid_requests"
    /\ lastBehavior.recent > 10 => lastBehavior.result.confidence = 70

\* The 11th request within 60 seconds, the first of them 59.999 s old.
C16_Witness ==
  /\ Observed
  /\ lastBehavior.recent = 11
  /\ lastBehavior.at = 60000
  /\ requestsOf(requestHistory, ClientKey)[Len(requestsOf(requestHistory, ClientKey)) - 10].timestamp = 1
  /\ lastBehavior.result # null
  /\ lastBehavior.result.method = "rapid_requests"

\* C18 as the specification states it: every entry in a key's behavior
\* history lies within the retention lookback (one hour) of the current time,
\* entries older than that being evicted when the key is observed, so that no
\* stale entry survives an observe call.  (Stated for the state an observe
\* call leaves.)
C18_AsStated ==
  (Observed /\ lastBehavior.at = clock)
    => \A i \in DOMAIN requestsOf(requestHistory, lastBehavior.key) :
         clock - requestsOf(requestHistory, lastBehavior.key)[i].timestamp <= 3600000

\* C18, corrected: entries are evicted by the periodic sweep only.  In the
\* state a sweep leaves, every entry of every key is less than one hour old
\* and no record is empty; an observe call evicts nothing, it keeps every
\* earlier entry of the key, however old, and appends one.
C18_EvictedBySweepOnly ==
  /\ (lastBehavior.op = "cleanup" /\ lastBehavior.at = clock)
       => \A key \in DOMAIN requestHistory :
            /\ Len(requestHistory[key].requests) > 0
            /\ \A i \in DOMAIN requestHistory[key].requests :
                 clock - requestHistory[key].requests[i].timestamp < 3600000
  /\ Observed => lastBehavior.kept

\* A sweep has just evicted the entries of the key that were an hour old and
\* left the younger ones.
C18_Witness ==
  /\ lastBehavior.op = "cleanup"
  /\ lastBehavior.at = clock
  /\ ClientKey \in DOMAIN requestHistory
  /\ requestHistory[ClientKey].firstSeen = 0
  /\ requestHistory[ClientKey].requests[1].timestamp > 0

(***************************************************************************)
(* Distinct URLs (specification SpecCrawl): one client asks for one new    *)
(* URL after another, now and then for a URL it already asked for, before  *)
(* and after the 60-second window of its first requests has passed.        *)
(***************************************************************************)
\* Most distinct URLs of a key
MaxUrls == 22
\* Most requests of a key for a URL it already asked for
MaxRepeats == 1

CrawlInstants == { 0, 60000 }

CrawlTick ==
  /\ \E t \in CrawlInstants : t > clock /\ clock' = t
  /\ UNCHANGED << cache, requestCount, lastReset, detectorVars, matcherVars, lookupVars,
                  behaviorVars, arbiterVars, enhancedVars >>

\* The next URL the client has not asked for yet
CrawlNewUrl ==
  /\ Cardinality(urlsOf(requestHistory, ClientKey)) < MaxUrls
  /\ AnalyzeBehavior(Client_IP, Client_UA,
                     Url(Cardinality(urlsOf(requestHistory, ClientKey)) + 1))

\* A URL the client asked for before
CrawlSameUrl ==
  /\ urlsOf(requestHistory, ClientKey) # {}
  /\ Len(requestsOf(requestHistory, ClientKey))
       - Cardinality(urlsOf(requestHistory, ClientKey)) < MaxRepeats
  /\ AnalyzeBehavior(Client_IP, Client_UA, Url(1))

NextCrawl ==
  \/ CrawlNewUrl
  \/ CrawlSameUrl
  \/ CrawlTick

SpecCrawl == Init /\ [][NextCrawl]_vars

IsSystematicCrawling(detection) ==
  detection # null /\ detection.method = "systematic_crawling"

\* C17 as the specification states it: the observe call that brings the key's
\* cumulative distinct-URL set to 21 elements returns systematic_crawling
\* (confidence 0.6) whatever the timing of the requests, and no call returns
\* systematic_crawling while the set has 20 or fewer elements.
C17_AsStated ==
  Observed =>
    /\ (lastBehavior.added /\ lastBehavior.distinct = 21)
         => /\ IsSystematicCrawling(lastBehavior.result)
            /\ lastBehavior.result.confidence = 60
    /\ lastBehavior.distinct <= 20 => ~IsSystematicCrawling(lastBehavior.result)

\* C17, corrected: an observe call returns systematic_crawling (confidence
\* 0.6) exactly when the key's distinct-URL set, the URL of the call included,
\* has more than 20 elements and at most 10 of the key's entries, the new one
\* included, are less than 60 s old; with more than 10 such entries the call
\* returns rapid_requests instead.
C17_SystematicCrawling ==
  Observed =>
    /\ IsSystematicCrawling(lastBehavior.result)
         <=> (lastBehavior.distinct > 20 /\ lastBehavior.recent <= 10)
    /\ IsSystematicCrawling(lastBehavior.result) => lastBehavior.result.confidence = 60
    /\ (lastBehavior.distinct > 20 /\ lastBehavior.recent > 10)
         => lastBehavior.result.method = "rapid_requests"

\* The call that brings the set to 21 URLs returns systematic_crawling.
C17_Witness ==
  /\ Observed
  /\ lastBehavior.added
  /\ lastBehavior.distinct = 21
  /\ IsSystematicCrawling(lastBehavior.result)
  /\ lastBehavior.result.confidence = 60

(***************************************************************************)
(* The arbiter alone (specification SpecArbiter): selectBestDetection of   *)
(* LLMDetector and of EnhancedLLMDetector applied to lists of candidates,  *)
(* in every order.                                                         *)
(***************************************************************************)
\* Longest candidate list
MaxCandidates == 3

Candidate(method, confidence) ==
  Detection("web_research", WebResearchBots, method, confidence, <<>>, undefined)

\* What the producers return: a range match (0.9), a suspicious
\* user agent (0.6), an AI referrer (0.8), rapid requests (0.7), systematic
\* crawling (0.6).
CandidatePool ==
  { Candidate("ip_range", 90), Candidate("suspicious_user_agent", 60),
    Candidate("suspicious_referrer", 80), Candidate("rapid_requests", 70),
    Candidate("systematic_crawling", 60) }

\* The lists of up to MaxCandidates different candidates
CandidateLists ==
  UNION { { s \in [1..n -> CandidatePool] : \A i, j \in 1..n : i # j => s[i] # s[j] }
          : n \in 0..MaxCandidates }

InitArbiterCall ==
  /\ candidateList \in CandidateLists
  /\ arbitration = NotCalled
  /\ InitAnalyzer /\ InitDetector /\ InitMatcher /\ InitLookups /\ InitBehavior /\ InitEnhanced

\* LLMDetector.selectBestDetection(candidateList)
SelectBestDetection ==
  /\ arbitration = NotCalled
  /\ arbitration' = [mode |-> "standard", returned |-> selectBestDetection(candidateList)]
  /\ UNCHANGED << candidateList, analyzerVars, detectorVars, matcherVars, lookupVars,
                  behaviorVars, enhancedVars >>

\* EnhancedLLMDetector.selectBestDetection(candidateList)
SelectBestDetectionEnhanced ==
  /\ arbitration = NotCalled
  /\ arbitration' = [mode |-> "enhanced",
                     returned |-> selectBestDetectionEnhanced(candidateList)]
  /\ UNCHANGED << candidateList, analyzerVars, detectorVars, matcherVars, lookupVars,
                  behaviorVars, enhancedVars >>

NextArbiter ==
  \/ SelectBestDetection
  \/ SelectBestDetectionEnhanced

SpecArbiter == InitArbiterCall /\ [][NextArbiter]_vars

Arbitrated == arbitration # NotCalled

\* The confidences of a list of candidates, in order
Confidences(list) == [i \in DOMAIN list |-> list[i].confidence]

\* d is one of the candidates of highest confidence, as the producer made it
IsTopCandidate(d) ==
  /\ \E i \in DOMAIN candidateList : candidateList[i] = d
  /\ \A i \in DOMAIN candidateList : candidateList[i].confidence <= d.confidence

\* d is a candidate of highest confidence and carries every other candidate,
\* each once, in confidence-descending order.
CarriesTheRest(d) ==
  LET best == [d EXCEPT !.alternativeDetections = <<>>]
      rest == d.alternativeDetections
  IN /\ IsTopCandidate(best)
     /\ Len(rest) = Len(candidateList) - 1
     /\ { rest[i] : i \in DOMAIN rest } \cup {best}
          = { candidateList[i] : i \in DOMAIN candidateList }
     /\ \A i \in DOMAIN rest : rest[i].confidence <= best.confidence
     /\ \A i, j \in DOMAIN rest : i < j => rest[i].confidence >= rest[j].confidence

\* C19 as the specification states it: the arbiter, in standard and in
\* enhanced mode, returns null for an empty candidate list; otherwise it
\* returns the candidate of highest confidence with all remaining candidates
\* attached as alternativeDetections in confidence-descending order.
C19_AsStated ==
  Arbitrated =>
    IF candidateList = <<>> THEN arbitration.returned = null
    ELSE arbitration.returned # null /\ CarriesTheRest(arbitration.returned)

\* C19, corrected: both arbiters return null for an empty candidate list and
\* otherwise a candidate of highest confidence.  The standard arbiter
\* attaches all remaining candidates to it as alternativeDetections in
\* confidence-descending order; the enhanced arbiter returns the candidate as
\* the producer made it and attaches nothing.
C19_AlternativesInStandardModeOnly ==
  Arbitrated =>
    IF candidateList = <<>> THEN arbitration.returned = null
    ELSE /\ arbitration.returned # null
         /\ arbitration.mode = "standard" => CarriesTheRest(arbitration.returned)
         /\ arbitration.mode = "enhanced"
              => /\ IsTopCandidate(arbitration.returned)
                 /\ arbitration.returned.alternativeDetections = <<>>

\* Confidences [0.6, 0.9, 0.7] in standard mode: the 0.9 candidate with
\* alternatives [0.7, 0.6].
C19_Witness ==
  /\ Arbitrated
  /\ arbitration.mode = "standard"
  /\ Confidences(candidateList) = <<60, 90, 70>>
  /\ arbitration.returned.confidence = 90
  /\ Confidences(arbitration.returned.alternativeDetections) = <<70, 60>>

\* The signature candidate and the network candidate of the call
SignatureCandidate == call.detectionResults[1]
NetworkCandidate == call.ipDetection

TiedCandidates ==
  /\ Done
  /\ call.detectionResults # <<>>
  /\ call.ipDetection # null
  /\ SignatureCandidate.confidence = NetworkCandidate.confidence

\* C20: when the signature candidate and the network candidate have equal
\* confidence, detectLLMCompany returns the signature candidate
\* (method user_agent) and lists the network candidate as its one
\* alternative: the first-discovered producer wins ties.
C20_SignatureWinsTies ==
  TiedCandidates =>
    /\ result # null
    /\ result.method = "user_agent"
    /\ result = [SignatureCandidate EXCEPT !.alternativeDetections = <<NetworkCandidate>>]

\* User agent "GPTBot/1.0 (+https://openai.com/gptbot)" (0.9) from
\* 23.102.140.115, inside OpenAI's range (0.9): openai by user_agent, with
\* the range match as alternative.
C20_Witness ==
  /\ TiedCandidates
  /\ call.userAgent = UA_GPTBot
  /\ call.ipAddress = IP_OpenAI
  /\ result.company = "openai"
  /\ result.method = "user_agent"
  /\ result.confidence = 90
  /\ Len(result.alternativeDetections) = 1
  /\ result.alternativeDetections[1].method = "ip_range"
  /\ result.alternativeDetections[1].confidence = 90

(***************************************************************************)
(* EnhancedLLMDetector: the producers of detectLLMActivity                 *)
(***************************************************************************)
\* The "." of a regular expression: any one character
AnyChar == "any"

\* pattern.test(s) for the case-insensitive patterns of suspiciousPatterns:
\* s has a substring that is the pattern, letter case aside.
regexTest(pattern, s) ==
  LET lower == toLowerCase(s) IN
  \E i \in 0..(Len(lower) - Len(pattern)) :
    \A k \in 1..Len(pattern) : pattern[k] = AnyChar \/ pattern[k] = lower[i + k]

userAgentPatterns ==
  << <<"h","e","a","d","l","e","s","s">>,
     <<"p","h","a","n","t","o","m">>,
     <<"s","e","l","e","n","i","u","m">>,
     <<"p","u","p","p","e","t","e","e","r">>,
     <<"p","l","a","y","w","r","i","g","h","t">>,
     <<"r","e","s","e","a","r","c","h">>,
     <<"c","r","a","w","l","e","r">>,
     <<"s","c","r","a","p","e","r">>,
     <<"b","o","t">>,
     <<"s","p","i","d","e","r">>,
     <<"a","r","t","i","f","i","c","i","a","l">>,
     <<"i","n","t","e","l","l","i","g","e","n","c","e">>,
     <<"m","a","c","h","i","n","e",AnyChar,"l","e","a","r","n","i","n","g">>,
     <<"n","e","u","r","a","l">>,
     <<"g","p","t">>,
     <<"c","l","a","u","d","e">>,
     <<"b","a","r","d">>,
     <<"a","u","t","o","m","a","t","e","d">>,
     <<"s","c","r","i","p","t">>,
     <<"t","o","o","l">>,
     <<"a","g","e","n","t">> >>

suspiciousReferrers ==
  << <<"o","p","e","n","a","i",".","c","o","m">>,
     <<"a","n","t","h","r","o","p","i","c",".","c","o","m">>,
     <<"p","e","r","p","l","e","x","i","t","y",".","a","i">>,
     <<"c","l","a","u","d","e",".","a","i">>,
     <<"c","h","a","t","g","p","t",".","c","o","m">>,
     <<"b","a","r","d",".","g","o","o","g","l","e",".","c","o","m">>,
     <<"c","o","p","i","l","o","t",".","m","i","c","r","o","s","o","f","t",".","c","o","m">> >>

missingHeaders == << "accept-language", "accept-encoding", "cache-control" >>
automationHeaders == << "x-requested-with", "x-automation", "x-bot" >>

\* header.replace('-', '_')
replaceDash(header) ==
  CASE header = "accept-language" -> "accept_language"
    [] header = "accept-encoding" -> "accept_encoding"
    [] header = "cache-control" -> "cache_control"
    [] OTHER -> header

\* The detection objects the producers of the enhanced detector return
EnhancedDetection(company, companyName, method, confidence, details) ==
  [ company |-> company, companyName |-> companyName, method |-> method,
    confidence |-> confidence, details |-> details ]

detectSuspiciousUserAgent(ua) ==
  IF falsy(ua) THEN null
  ELSE
    LET hits == { i \in DOMAIN userAgentPatterns : regexTest(userAgentPatterns[i], ua.s) } IN
    IF hits = {} THEN null
    ELSE EnhancedDetection("web_research", WebResearchBots, "suspicious_user_agent", 60,
                           userAgentPatterns[SetMin(hits)])

detectSuspiciousReferrer(referer) ==
  IF falsy(referer) THEN null
  ELSE IF \A i \in DOMAIN suspiciousReferrers : ~regexTest(suspiciousReferrers[i], referer.s)
    THEN null
  ELSE
    LET has(word) == regexTest(word, referer.s)
        company ==
          IF has(<<"o","p","e","n","a","i">>) \/ has(<<"c","h","a","t","g","p","t">>) THEN "openai"
          ELSE IF has(<<"a","n","t","h","r","o","p","i","c">>) \/ has(<<"c","l","a","u","d","e">>) THEN "anthropic"
          ELSE IF has(<<"p","e","r","p","l","e","x","i","t","y">>) THEN "perplexity"
          ELSE IF has(<<"g","o","o","g","l","e">>) \/ has(<<"b","a","r","d">>) THEN "google"
          ELSE IF has(<<"m","i","c","r","o","s","o","f","t">>) \/ has(<<"c","o","p","i","l","o","t">>) THEN "microsoft"
          ELSE "misc_llm"
        companyName ==
          CASE company = "openai" -> <<"O","p","e","n","A","I">>
            [] company = "anthropic" -> <<"A","n","t","h","r","o","p","i","c">>
            [] company = "perplexity" -> <<"P","e","r","p","l","e","x","i","t","y"," ","A","I">>
            [] company = "google" -> <<"G","o","o","g","l","e">>
            [] company = "microsoft" -> <<"M","i","c","r","o","s","o","f","t"," ","A","I">>
            [] OTHER -> <<"O","t","h","e","r"," ","L","L","M">>
    IN EnhancedDetection(company, companyName, "suspicious_referrer", 80, referer.s)

\* analyzeHeaders(headers); headers is the set of the names of the request's
\* headers (lower case, as Node gives them) that have a non-empty value.
analyzeHeaders(headers) ==
  LET missing == SelectSeq(missingHeaders,
                           LAMBDA header : header \notin headers /\ replaceDash(header) \notin headers)
      suspiciousIndicators ==
        (IF Len(missing) >= 2 THEN << "Missing headers" >> ELSE << >>)
        \o (IF "user-agent" \in headers /\ "accept-language" \notin headers
              THEN << "Missing accept-language header" >> ELSE << >>)
        \o SelectSeq(automationHeaders, LAMBDA header : header \in headers)
  IN IF Len(suspiciousIndicators) > 0
       THEN EnhancedDetection("web_research", WebResearchBots, "header_analysis", 50,
                              suspiciousIndicators)
       ELSE null

\* x || ''
orEmpty(x) == IF falsy(x) THEN JsStr(<< >>) ELSE x

\* if (detection) detectionResults.push(detection)
pushIfTruthy(detectionResults, detection) ==
  IF detection = null \/ detection = undefined THEN detectionResults
  ELSE Append(detectionResults, detection)


(***************************************************************************)
(* EnhancedLLMDetector.detectLLMActivity as a state machine: it waits for  *)
(* the standard detection (detectLLMCompany, above), then runs its own     *)
(* producers and arbitrates.  A request req has userAgent and referer (a   *)
(* string, or undefined when the header is absent), ip, headers and url.   *)
(***************************************************************************)
\* Mutant of enhancedDetectionResults: the behavioral analysis is pushed
\* right after the standard detection.
enhancedDetectionResults_BehaviorFirst(standardDetection, req, behaviorDetection) ==
  pushIfTruthy(
    pushIfTruthy(
      pushIfTruthy(
        pushIfTruthy(
          pushIfTruthy(<< >>, standardDetection),
          behaviorDetection),
        detectSuspiciousUserAgent(orEmpty(req.userAgent))),
      detectSuspiciousReferrer(orEmpty(req.referer))),
    analyzeHeaders(req.headers))

\* detectionResults of detectLLMActivity, in the order it is filled
enhancedDetectionResults(standardDetection, req, behaviorDetection) ==
  pushIfTruthy(
    pushIfTruthy(
      pushIfTruthy(
        pushIfTruthy(
          pushIfTruthy(<< >>, standardDetection),
          detectSuspiciousUserAgent(orEmpty(req.userAgent))),
        detectSuspiciousReferrer(orEmpty(req.referer))),
      analyzeHeaders(req.headers)),
    behaviorDetection)

\* detectLLMActivity(req) up to `await this.standardDetection`
detectLLMActivityBegin(req) ==
  /\ activity.stage # "standard"
  /\ detectLLMCompanyBegin(orEmpty(req.userAgent), req.ip)
  /\ activity' = [stage |-> "standard", req |-> req]

\* detectLLMActivity from the return of the standard detection to its own
detectLLMActivityEnd ==
  /\ activity.stage = "standard"
  /\ pc = "done"
  /\ LET req == activity.req
         ua == orEmpty(req.userAgent)
         behaviorDetection ==
           analyzeBehavior(requestHistory, req.ip.s, ua.s, req.url, clock).result
         detectionResults == enhancedDetectionResults(result, req, behaviorDetection)
     IN /\ observeBehavior(req.ip.s, ua.s, req.url)
        /\ activity' = [ stage |-> "returned", req |-> req,
                         detectionResults |-> detectionResults,
                         returned |-> selectBestDetectionEnhanced(detectionResults) ]

DetectLLMActivity(req) ==
  /\ detectLLMActivityBegin(req)
  /\ UNCHANGED << clock, requests, matcherVars, lookupVars, behaviorVars, arbiterVars, tracked, logger >>

DetectLLMActivityReturns ==
  /\ detectLLMActivityEnd
  /\ UNCHANGED << analyzerVars, detectorVars, matcherVars, lookupVars, arbiterVars, tracked, logger >>

(***************************************************************************)
(* Enhanced detection (specification SpecEnhanced): one client, with its   *)
(* User-Agent, address, referrer and headers, asks for one new URL after   *)
(* another, before and after the 60-second window of its first requests    *)
(* has passed.                                                             *)
(***************************************************************************)
\* Number of requests the client makes
MaxActivities == 21

UA_Headless == JsStr(<<"H","e","a","d","l","e","s","s","C","h","r","o","m","e","/","1","2","0",".","0">>)
UA_Mozilla == JsStr(<<"M","o","z","i","l","l","a","/","5",".","0">>)
UA_GPTBotShort == JsStr(<<"G","P","T","B","o","t","/","1",".","0">>)
Referer_ChatGPT == JsStr(<<"h","t","t","p","s",":","/","/","c","h","a","t","g","p","t",".","c","o","m","/">>)
BrowserHeaders == { "user-agent", "accept", "accept-language", "accept-encoding", "cache-control" }
BareHeaders == { "user-agent", "accept" }

Client(ua, ip, referer, headers) ==
  [ userAgent |-> ua, ip |-> ip, referer |-> referer, headers |-> headers, url |-> << >> ]

Clients ==
  { Client(UA_GPTBotShort, IP_OpenAI, JsUndefined, BrowserHeaders),
    Client(UA_Mozilla, IP_Public, JsUndefined, BrowserHeaders),
    Client(UA_Mozilla, IP_OpenAI, Referer_ChatGPT, BrowserHeaders),
    Client(UA_Headless, IP_Public, JsUndefined, BrowserHeaders),
    Client(UA_Headless, IP_Public, Referer_ChatGPT, BareHeaders),
    Client(JsUndefined, IP_Public, JsUndefined, BareHeaders) }

EnhancedGeoOutcomes ==
  { GeoReject("timeout"), GeoResponse(FALSE, Country_US, Org_Other, "AS64500") }

InitEnhancedClient ==
  /\ activity \in { [stage |-> "client", req |-> r] : r \in Clients }
  /\ tracked = NoActivity
  /\ logger = NewLogger
  /\ InitAnalyzer /\ InitDetector /\ InitMatcher /\ InitLookups /\ InitBehavior /\ InitArbiter

\* The key of the client's history, and its next request
ClientKeyOf(req) == behaviorKey(req.ip.s, orEmpty(req.userAgent).s)
ClientRequests ==
  LET n == Cardinality(urlsOf(requestHistory, ClientKeyOf(activity.req))) IN
  /\ n < MaxActivities
  /\ DetectLLMActivity([activity.req EXCEPT !.url = Url(n + 1)])

EnhancedTick ==
  /\ \E t \in CrawlInstants : t > clock /\ clock' = t
  /\ UNCHANGED << cache, requestCount, lastReset, detectorVars, matcherVars, lookupVars,
                  behaviorVars, arbiterVars, enhancedVars >>

NextEnhanced ==
  \/ ClientRequests
  \/ \E outcome \in EnhancedGeoOutcomes : FetchIPInfoSettles(outcome)
  \/ DetectLLMActivityReturns
  \/ EnhancedTick

SpecEnhanced == InitEnhancedClient /\ [][NextEnhanced]_vars

ActivityReturned == activity.stage = "returned"

\* What the producers of the call that returned made, each taken from the
\* producer itself: the signature matcher and the network attributor (inside
\* the standard detection), the suspicious-User-Agent sweep, the referrer
\* sweep, the header heuristic and the behavioral analysis.
Produced ==
  { d \in { call.detectionResults[i] : i \in DOMAIN call.detectionResults }
          \cup { call.ipDetection,
                 detectSuspiciousUserAgent(orEmpty(activity.req.userAgent)),
                 detectSuspiciousReferrer(orEmpty(activity.req.referer)),
                 analyzeHeaders(activity.req.headers),
                 lastBehavior.result } : d # null }

\* The same detection, apart from the alternatives the standard arbiter
\* attached
SameCandidate(d, e) ==
  /\ d.method = e.method
  /\ d.company = e.company
  /\ d.confidence = e.confidence

\* C21: in enhanced mode the attribution returned has the greatest
\* confidence among the candidates of all producers (signature, network,
\* suspicious User-Agent, referrer, headers, behavior); it is null only when
\* no producer made a candidate.
C21_HighestConfidenceWins ==
  ActivityReturned =>
    IF Produced = {} THEN activity.returned = null
    ELSE /\ activity.returned # null
         /\ \E d \in Produced : SameCandidate(d, activity.returned)
         /\ \A d \in Produced : d.confidence <= activity.returned.confidence

\* A later producer's strictly higher confidence wins over the first
\* candidate discovered.
C21_Witness ==
  /\ ActivityReturned
  /\ Len(activity.detectionResults) >= 2
  /\ activity.returned.confidence > activity.detectionResults[1].confidence
  /\ activity.returned.method \in {"suspicious_referrer", "rapid_requests"}

\* The place of a candidate's producer in the sequence the specification
\* gives: signature matcher and network attributor (the standard detection),
\* behavioral analyzer, suspicious-User-Agent sweep, referrer sweep, header
\* heuristic.
StatedPlace(method) ==
  CASE method \in {"rapid_requests", "systematic_crawling"} -> 2
    [] method = "suspicious_user_agent" -> 3
    [] method = "suspicious_referrer" -> 4
    [] method = "header_analysis" -> 5
    [] OTHER -> 1

\* Its place in the sequence detectLLMActivity runs them in: standard
\* detection, suspicious-User-Agent sweep, referrer sweep, header heuristic,
\* behavioral analyzer.
PlaceInCode(method) ==
  CASE method = "suspicious_user_agent" -> 2
    [] method = "suspicious_referrer" -> 3
    [] method = "header_analysis" -> 4
    [] method \in {"rapid_requests", "systematic_crawling"} -> 5
    [] OTHER -> 1

\* The candidates of the call that returned that have the top confidence
TopCandidates ==
  { i \in DOMAIN activity.detectionResults :
      \A j \in DOMAIN activity.detectionResults :
        activity.detectionResults[j].confidence <= activity.detectionResults[i].confidence }

\* C22 as the specification states it: candidates are discovered in the
\* sequence signature, network, behavior, suspicious User-Agent, referrer,
\* headers, and among candidates of equal top confidence the one earliest in
\* this sequence is returned (a 0.6 systematic_crawling candidate wins over a
\* 0.6 suspicious_user_agent candidate).
C22_AsStated ==
  ActivityReturned =>
    /\ \A i, j \in DOMAIN activity.detectionResults :
         i < j => StatedPlace(activity.detectionResults[i].method)
                    < StatedPlace(activity.detectionResults[j].method)
    /\ \A i \in TopCandidates :
         StatedPlace(activity.returned.method)
           <= StatedPlace(activity.detectionResults[i].method)

\* C22, corrected: in enhanced mode candidates are discovered in the
\* sequence standard detection (signature, then network), suspicious
\* User-Agent, referrer, headers, behavior, and among candidates of equal top
\* confidence the one earliest in this sequence is returned; within the
\* standard detection the signature candidate comes before the network
\* candidate and wins a tie with it.
C22_DiscoveryOrder ==
  ActivityReturned =>
    /\ \A i, j \in DOMAIN activity.detectionResults :
         i < j => PlaceInCode(activity.detectionResults[i].method)
                    < PlaceInCode(activity.detectionResults[j].method)
    /\ \A i \in TopCandidates :
         /\ PlaceInCode(activity.returned.method)
              <= PlaceInCode(activity.detectionResults[i].method)
         /\ activity.returned.confidence = activity.detectionResults[i].confidence
    /\ ( /\ call.detectionResults # << >>
         /\ call.ipDetection # null
         /\ call.detectionResults[1].confidence = call.ipDetection.confidence )
         => activity.detectionResults[1].method = "user_agent"

\* A 0.6 suspicious_user_agent candidate and a 0.6 systematic_crawling
\* candidate, and nothing higher: suspicious_user_agent is returned.
C22_Witness ==
  /\ ActivityReturned
  /\ \E i \in DOMAIN activity.detectionResults :
       /\ activity.detectionResults[i].method = "systematic_crawling"
       /\ activity.detectionResults[i].confidence = 60
  /\ activity.returned.method = "suspicious_user_agent"
  /\ activity.returned.confidence = 60

(***************************************************************************)
(* The stats registry (specification SpecStats): several detectLLMCompany  *)
(* calls, one after another, and resetStats at any moment.                  *)
(***************************************************************************)
\* Number of detectLLMCompany calls
MaxStatCalls == 2

StatUserAgents == { UA_GPTBotShort, UA_Mozilla }
StatIPs == { IP_OpenAI, IP_Public, JsUndefined }
StatGeoOutcomes ==
  { GeoReject("error"),
    GeoResponse(FALSE, Country_US, Org_Google, "AS15169"),
    GeoResponse(FALSE, Country_US, Org_Facebook, "AS399358"),
    GeoResponse(FALSE, Country_US, Org_OpenAI, "null") }
StatReverseOutcomes == { DnsReject, DnsAnswer(<<Host_Googlebot>>) }
StatResolve4Outcomes == { DnsReject, DnsAnswer(<<IP_Public.s>>) }

CountedDetection(ua, ipAddress) ==
  /\ requests < MaxStatCalls
  /\ requests' = requests + 1
  /\ detectLLMCompanyBegin(ua, ipAddress)
  /\ UNCHANGED << clock, matcherVars, lookupVars, behaviorVars, arbiterVars, enhancedVars >>

ResetStats ==
  /\ detectionStats' = resetDetectionStats
  /\ UNCHANGED << analyzerVars, pc, call, result, requests, matcherVars, lookupVars,
                  behaviorVars, arbiterVars, enhancedVars >>

NextStats ==
  \/ \E ua \in StatUserAgents, ip \in StatIPs : CountedDetection(ua, ip)
  \/ \E outcome \in StatGeoOutcomes : FetchIPInfoSettles(outcome)
  \/ \E outcome \in StatReverseOutcomes : DnsReverseSettles(outcome)
  \/ \E outcome \in StatResolve4Outcomes : DnsResolve4Settles(outcome)
  \/ ResetStats

SpecStats == Init /\ [][NextStats]_vars

RECURSIVE sumOver(_, _)
sumOver(counts, keys) ==
  IF keys = {} THEN 0
  ELSE LET k == CHOOSE x \in keys : TRUE IN counts[k] + sumOver(counts, keys \ {k})

\* The sum of the counts of a counter object
total(counts) == sumOver(counts, DOMAIN counts)

\* counts[key], 0 when the key is absent
countOf(counts, key) == IF key \in DOMAIN counts THEN counts[key] ELSE 0

\* This step is the return of a detectLLMCompany call.
CallReturns == pc' = "done" /\ (pc # "done" \/ requests' # requests)

\* This step is resetStats (alone: no call returns in it).
StatsAreReset == ~CallReturns /\ detectionStats' = resetDetectionStats

\* counts' is counts with the count of key raised by one
RaisedAt(counts, key) ==
  /\ countOf(counts', key) = countOf(counts, key) + 1
  /\ \A k \in (DOMAIN counts \cup DOMAIN counts') \ {key} :
       countOf(counts', k) = countOf(counts, k)

StatsStep ==
  /\ (CallReturns /\ result' # null)
       => /\ detectionStats'.totalDetections = detectionStats.totalDetections + 1
          /\ RaisedAt(detectionStats.methodCounts, result'.method)
          /\ RaisedAt(detectionStats.companyCounts, result'.company)
  /\ (CallReturns /\ result' = null) => detectionStats' = detectionStats
  /\ ~CallReturns => (detectionStats' = detectionStats \/ StatsAreReset)

StatsAddUp ==
  /\ detectionStats.totalDetections = total(detectionStats.methodCounts)
  /\ detectionStats.totalDetections = total(detectionStats.companyCounts)

\* C23: every detectLLMCompany call that returns an attribution A raises
\* totalDetections, methodCounts[A.method] and companyCounts[A.company] by
\* exactly 1 each and no other count; a call that returns null changes no
\* counter; otherwise the counters change only when resetStats sets them to
\* zero; so totalDetections always equals the sum of the per-method counts
\* and the sum of the per-company counts.
C23_StatsFollowDetections == [][StatsStep]_vars /\ []StatsAddUp

\* The second attribution, found by a method the constructor's methodCounts
\* does not list, after a first one by user agent.
C23_Witness ==
  /\ Done
  /\ result # null
  /\ result.method = "organization"
  /\ detectionStats.totalDetections = 2
  /\ detectionStats.methodCounts["organization"] = 1
  /\ countOf(detectionStats.companyCounts, "openai") >= 1

(***************************************************************************)
(* Overlapping requests (specification SpecOverlap): analyzeIP calls wait  *)
(* for their lookups at the same time, and the behavioral analyzer         *)
(* observes the client between any two of their steps.                     *)
(***************************************************************************)
\* Most analyzeIP calls waiting for their lookups at the same time
MaxOverlap == 2
\* Most observations of the client
MaxObservations == 2

OverlapIPs == { IP_Public, IP_OpenAI }
OverlapOutcomes ==
  { GeoReject("timeout"), GeoResponse(FALSE, Country_US, Org_Google, "AS15169") }

\* Before and after the daily reset of the quota is due
OverlapInstants == { 0, cacheTimeout + 1 }

OverlapTick ==
  /\ \E t \in OverlapInstants : t > clock /\ clock' = t
  /\ swept' = {}
  /\ UNCHANGED << cache, requestCount, lastReset, lookups, lastLookup, detectorVars, matcherVars, behaviorVars, arbiterVars, enhancedVars >>

OverlappingAnalyzeIP(ipAddress) ==
  /\ Len(lookups) < MaxOverlap
  /\ analyzeIPStarts(ipAddress)

NextOverlap ==
  \/ \E ip \in OverlapIPs : OverlappingAnalyzeIP(ip)
  \/ \E k \in 1..MaxOverlap, outcome \in OverlapOutcomes : LookupSettles(k, outcome)
  \/ /\ Len(requestsOf(requestHistory, ClientKey)) < MaxObservations
     /\ AnalyzeBehavior(Client_IP, Client_UA, Url(1))
  \/ OverlapTick

SpecOverlap == Init /\ [][NextOverlap]_vars

\* In this step a lookup settles, successfully or not.
LookupSucceeds == Len(lookups') < Len(lookups) /\ ~lastLookup'.lookupFailed
LookupFails == Len(lookups') < Len(lookups) /\ lastLookup'.lookupFailed

\* In this step the history of key gets one more entry and keeps the others.
OneMoreEntry(key) ==
  LET before == requestsOf(requestHistory, key)
      after == requestsOf(requestHistory', key)
  IN /\ Len(after) = Len(before) + 1
     /\ SubSeq(after, 1, Len(before)) = before
     /\ \A other \in (DOMAIN requestHistory \cup DOMAIN requestHistory') \ {key} :
          requestsOf(requestHistory', other) = requestsOf(requestHistory, other)

NoLostUpdate ==
  /\ LookupSucceeds => requestCount' = requestCount + 1
  /\ LookupFails => requestCount' = requestCount
  /\ Len(lookups') >= Len(lookups)
       => \/ requestCount' = requestCount
          \/ requestCount' = 0 /\ lastReset' # lastReset
  /\ requestHistory' # requestHistory
       => /\ lastBehavior'.op = "observe"
          /\ OneMoreEntry(lastBehavior'.key)
  /\ (lastBehavior' # lastBehavior /\ lastBehavior'.op = "observe")
       => OneMoreEntry(lastBehavior'.key)

\* C24: under any interleaving of overlapping in-flight requests no update
\* to shared state is lost: every observation of a key adds exactly one
\* entry to that key's history and keeps the entries it had, and every
\* successful external lookup raises the quota counter by exactly one,
\* whatever other lookups are in flight; apart from that the counter changes
\* only when the daily reset sets it to zero.
C24_NoLostUpdate == [][NoLostUpdate]_vars

\* Two lookups that were in flight together have both succeeded (the counter
\* is past the quota, which lookups made one after the other cannot reach),
\* and the client was observed twice.
C24_Witness ==
  /\ requestCount = maxRequestsPerDay + 1
  /\ lastLookup # NoLookup
  /\ lastLookup.external /\ ~lastLookup.lookupFailed
  /\ Len(requestsOf(requestHistory, ClientKey)) = 2

(***************************************************************************)
(* The path lists of the configuration and the three path predicates.      *)
(***************************************************************************)
GUIDED_PATHS ==
  << <<"/">>,
     <<"/","a","b","o","u","t">>,
     <<"/","f","l","o","w","s">>,
     <<"/","a","g","e","n","t","s">>,
     <<"/","b","o","o","t","c","a","m","p","s">>,
     <<"/","b","l","o","g","s">>,
     <<"/","c","o","n","t","a","c","t","-","u","s">>,
     <<"/","e","n","-","c","a","/","o","u","r","-","s","t","o","r","y">>,
     <<"/","a","i","-","e","d","u","c","a","t","i","o","n">>,
     <<"/","a","i","-","t","r","a","i","n","i","n","g">>,
     <<"/","m","a","c","h","i","n","e","-","l","e","a","r","n","i","n","g">>,
     <<"/","a","r","t","i","f","i","c","i","a","l","-","i","n","t","e","l","l","i","g","e","n","c","e">>,
     <<"/","a","u","t","o","m","a","t","i","o","n">>,
     <<"/","c","h","a","t","b","o","t">>,
     <<"/","l","l","m","-","t","r","a","i","n","i","n","g">>,
     <<"/","n","e","u","r","a","l","-","n","e","t","w","o","r","k","s">>,
     <<"/","d","e","e","p","-","l","e","a","r","n","i","n","g">>,
     <<"/","a","i","-","c","o","n","s","u","l","t","i","n","g">>,
     <<"/","a","i","-","i","m","p","l","e","m","e","n","t","a","t","i","o","n">>,
     <<"/","a","i","-","s","t","r","a","t","e","g","y">>,
     <<"/","a","i","-","w","o","r","k","f","l","o","w","s">>,
     <<"/","a","i","-","s","o","l","u","t","i","o","n","s">>,
     <<"/","a","i","-","t","o","o","l","s">>,
     <<"/","a","i","-","r","e","s","e","a","r","c","h">>,
     <<"/","a","i","-","i","n","s","i","g","h","t","s">>,
     <<"/","a","i","-","b","e","s","t","-","p","r","a","c","t","i","c","e","s">>,
     <<"/","a","i","-","c","a","s","e","-","s","t","u","d","i","e","s">>,
     <<"/","a","i","-","t","u","t","o","r","i","a","l","s">>,
     <<"/","a","i","-","g","u","i","d","e","s">>,
     <<"/","a","i","-","r","e","s","o","u","r","c","e","s">>,
     <<"/","a","i","-","d","o","c","u","m","e","n","t","a","t","i","o","n">>,
     <<"/","a","i","-","w","h","i","t","e","p","a","p","e","r","s">>,
     <<"/","a","i","-","r","e","p","o","r","t","s">>,
     <<"/","a","i","-","a","n","a","l","y","s","i","s">>,
     <<"/","a","i","-","t","r","e","n","d","s">>,
     <<"/","a","i","-","i","n","n","o","v","a","t","i","o","n">>,
     <<"/","a","i","-","t","r","a","n","s","f","o","r","m","a","t","i","o","n">> >>

SENSITIVE_PATHS ==
  << <<"/","a","d","m","i","n","/">>,
     <<"/","a","p","i","/">>,
     <<"/","p","r","i","v","a","t","e","/">>,
     <<"/","i","n","t","e","r","n","a","l","/">>,
     <<"/","d","a","s","h","b","o","a","r","d","/">>,
     <<"/","u","s","e","r","/">>,
     <<"/","a","c","c","o","u","n","t","/">>,
     <<"/","l","o","g","i","n","/">>,
     <<"/","a","u","t","h","/">>,
     <<"/","c","o","n","f","i","g","/">>,
     <<"/","s","e","t","t","i","n","g","s","/">> >>

IGNORED_PATHS ==
  << <<"/","f","a","v","i","c","o","n",".","i","c","o">>,
     <<"/","r","o","b","o","t","s",".","t","x","t">>,
     <<"/","s","i","t","e","m","a","p",".","x","m","l">>,
     <<"/","h","e","a","l","t","h">>,
     <<"/","p","i","n","g">>,
     <<"/",".","w","e","l","l","-","k","n","o","w","n","/">>,
     <<"/","s","t","a","t","i","c","/">>,
     <<"/","a","s","s","e","t","s","/">>,
     <<"/","i","m","a","g","e","s","/">>,
     <<"/","c","s","s","/">>,
     <<"/","j","s","/">>,
     <<"/","f","o","n","t","s","/">> >>

\* Mutant of shouldTrackPath: the path is lower-cased first, as the other two
\* path predicates do.
shouldTrackPath_LowerCase(path) ==
  ~ \E i \in DOMAIN IGNORED_PATHS : startsWith(toLowerCase(path), IGNORED_PATHS[i])

\* shouldTrackPath(path): no lower-casing
shouldTrackPath(path) ==
  ~ \E i \in DOMAIN IGNORED_PATHS : startsWith(path, IGNORED_PATHS[i])

isGuidedPath(path) ==
  \E i \in DOMAIN GUIDED_PATHS :
    startsWith(toLowerCase(path), toLowerCase(GUIDED_PATHS[i]))

isSensitivePath(path) ==
  \E i \in DOMAIN SENSITIVE_PATHS :
    startsWith(toLowerCase(path), toLowerCase(SENSITIVE_PATHS[i]))

(***************************************************************************)
(* The tracking middleware, trackLLMActivity(req, res, next).  tracked is  *)
(* the request it handles: where the handler is, what it extracted, how    *)
(* many geolocation lookups were sent out on the request's behalf, the     *)
(* detection it ended with, whether next() was called, and the detection   *)
(* stats as they were when the request came in.  logQueue is               *)
(* what was handed to logger.logLLMActivity, oldest first.                 *)
(***************************************************************************)
\* getClientIP(req) of the middleware, for a request that carries none of the
\* forwarding headers: req.ip || ... || 'unknown'
getClientIP(req) == IF falsy(req.ip) THEN IP_Unknown ELSE req.ip

extractRequestInfo(req) ==
  [ clientIP |-> getClientIP(req),
    userAgent |-> orEmpty(req.userAgent),
    referer |-> orEmpty(req.referer),
    pageVisited |-> IF req.url = << >> THEN << "/" >> ELSE req.url ]

prepareActivityData(requestInfo, detection) ==
  [ company |-> detection.company,
    userAgent |-> requestInfo.userAgent,
    ipAddress |-> requestInfo.clientIP,
    pageVisited |-> requestInfo.pageVisited,
    detectionMethod |-> detection.method,
    isGuidedPath |-> isGuidedPath(requestInfo.pageVisited),
    confidence |-> detection.confidence ]

logQueueOf(t) == IF "logQueue" \in DOMAIN t THEN t.logQueue ELSE << >>
handledOf(t) == IF "handled" \in DOMAIN t THEN t.handled ELSE 0

\* Mutant of the catch block: the error is handed on, `next(error)`.
trackLLMActivityCatch_PassesError ==
  tracked' = [ tracked EXCEPT
    !.stage = "next",
    !.caught = TRUE,
    !.nextError = Throw,
    !.nextCalls = @ + 1 ]

\* `} catch (error) { ... }  next()`: the error is logged and dropped
trackLLMActivityCatch ==
  tracked' = [ tracked EXCEPT
    !.stage = "next",
    !.caught = TRUE,
    !.nextCalls = @ + 1 ]

\* `if (detection) { ... logger.logLLMActivity(activityData) ... }  next()`;
\* threw: preparing or handing over the activity throws, which the catch
\* block takes
trackLLMActivityEnd(detection, threw) ==
  IF detection # null /\ detection # undefined
    THEN IF threw
           THEN trackLLMActivityCatch
           ELSE tracked' = [ tracked EXCEPT
                  !.stage = "next",
                  !.detection = detection,
                  !.logQueue = Append(@, prepareActivityData(tracked.requestInfo, detection)),
                  !.nextCalls = @ + 1 ]
    ELSE /\ ~ threw
         /\ tracked' = [ tracked EXCEPT
              !.stage = "next",
              !.detection = detection,
              !.nextCalls = @ + 1 ]

\* trackLLMActivity up to `return next()` for a path that is not tracked, or
\* to `await enhancedDetector.detectLLMActivity(req)`
TrackLLMActivity(req) ==
  LET requestInfo == extractRequestInfo(req)
      t == [ stage |-> "enhanced", req |-> req, requestInfo |-> requestInfo,
             lookups |-> 0, detectCalls |-> 0, detection |-> undefined,
             logQueue |-> logQueueOf(tracked), handled |-> handledOf(tracked) + 1,
             nextCalls |-> 0, nextError |-> undefined, caught |-> FALSE,
             statsBefore |-> detectionStats ]
  IN
  /\ tracked.stage \in {"none", "next"}
  /\ IF ~ shouldTrackPath(requestInfo.pageVisited)
       THEN /\ tracked' = [t EXCEPT !.stage = "next", !.nextCalls = 1]
            /\ UNCHANGED << cache, requestCount, lastReset, detectionStats, pc, call,
                            result, activity >>
       ELSE /\ detectLLMActivityBegin(req)
            /\ tracked' = [t EXCEPT !.detectCalls = 1,
                                    !.lookups = IF pc' = "fetch" THEN 1 ELSE 0]
  /\ UNCHANGED << clock, requests, matcherVars, lookupVars, behaviorVars, arbiterVars,
                  logger >>

\* From the return of detectLLMActivity: with a detection, to next(); without
\* one, to `await detector.detectLLMCompany(...)`, the fallback
TrackEnhancedReturns ==
  /\ tracked.stage = "enhanced"
  /\ detectLLMActivityEnd
  /\ IF activity'.returned # null
       THEN /\ \E threw \in BOOLEAN : trackLLMActivityEnd(activity'.returned, threw)
            /\ UNCHANGED << cache, requestCount, lastReset, detectionStats, pc, call, result >>
       ELSE /\ detectLLMCompanyBegin(tracked.requestInfo.userAgent,
                                     tracked.requestInfo.clientIP)
            /\ tracked' = [ tracked EXCEPT
                  !.stage = "fallback",
                  !.detectCalls = @ + 1,
                  !.lookups = IF pc' = "fetch" THEN @ + 1 ELSE @ ]
  /\ UNCHANGED << clock, requests, matcherVars, lookupVars, arbiterVars, logger >>

\* From the return of the fallback detection to next()
TrackFallbackReturns ==
  /\ tracked.stage = "fallback"
  /\ pc = "done"
  /\ \E threw \in BOOLEAN : trackLLMActivityEnd(result, threw)
  /\ UNCHANGED << analyzerVars, detectorVars, matcherVars, lookupVars, behaviorVars,
                  arbiterVars, activity, logger >>

\* detectLLMActivity throws after its standard detection (its producers read
\* req.headers and req.connection without a guard and it has no try block):
\* the await in the middleware throws and the catch block takes it
TrackDetectionThrows ==
  /\ tracked.stage = "enhanced"
  /\ activity.stage = "standard"
  /\ pc = "done"
  /\ activity' = [stage |-> "threw", req |-> activity.req]
  /\ trackLLMActivityCatch
  /\ UNCHANGED << analyzerVars, detectorVars, matcherVars, lookupVars, behaviorVars,
                  arbiterVars, logger >>

(***************************************************************************)
(* Requests through the middleware (specification SpecTracking), one at a  *)
(* time, each with its client and its path.                                *)
(***************************************************************************)
\* Number of requests the middleware handles
MaxTracked == 2

Path_Page == <<"/","p","a","g","e","/","0","1">>
Path_Favicon == <<"/","f","a","v","i","c","o","n",".","i","c","o">>
Path_Static == <<"/","s","t","a","t","i","c","/","a",".","j","s">>
Path_StaticUpper == <<"/","S","t","a","t","i","c","/","a",".","j","s">>
Path_AdminDashboard == <<"/","a","d","m","i","n","/","d","a","s","h","b","o","a","r","d">>
TrackedPaths == { Path_Page, Path_StaticUpper, Path_AdminDashboard }

TrackedClients ==
  { Client(UA_GPTBotShort, IP_OpenAI, JsUndefined, BrowserHeaders),
    Client(UA_Mozilla, IP_Public, JsUndefined, BrowserHeaders),
    Client(UA_Headless, IP_Public, JsUndefined, BareHeaders) }

\* Every ignored prefix, as it is listed and followed by something
IgnoredPaths ==
  UNION { { IGNORED_PATHS[i], IGNORED_PATHS[i] \o <<"x">> } : i \in DOMAIN IGNORED_PATHS }
    \cup { Path_Favicon, Path_Static }

\* Each client asks for the page; the crawler also asks for the other tracked
\* paths and for the ignored ones
TrackedRequests ==
  { [c EXCEPT !.url = Path_Page] : c \in TrackedClients }
    \cup { [Client(UA_GPTBotShort, IP_OpenAI, JsUndefined, BrowserHeaders) EXCEPT !.url = p] :
             p \in TrackedPaths \cup IgnoredPaths }

NextTracking ==
  \/ \E req \in TrackedRequests :
       handledOf(tracked) < MaxTracked /\ TrackLLMActivity(req)
  \/ \E outcome \in EnhancedGeoOutcomes : FetchIPInfoSettles(outcome)
  \/ TrackEnhancedReturns
  \/ TrackFallbackReturns
  \/ TrackDetectionThrows

SpecTracking == Init /\ [][NextTracking]_vars

\* C25 as stated: handling one request sends out at most one geolocation
\* lookup for its address, even when that lookup fails.
C25_AsStated == tracked.stage # "none" => tracked.lookups <= 1

(***************************************************************************)
(* Termination of detectLLMCompany (specification SpecTermination): the    *)
(* service and the resolver may also stay silent.  The geolocation request *)
(* is made with `timeout: 5000`, so a silent service is the rejection      *)
(* GeoReject("timeout") of FetchIPInfoSettles.  dns.reverse and            *)
(* dns.resolve4 are called with no timeout and nothing races them: when    *)
(* the resolver stays silent the promise is never settled and the call     *)
(* stays suspended at its await, which is pc = "suspended".                *)
(***************************************************************************)
ResolverStaysSilent ==
  /\ pc \in {"reverse", "resolve4"}
  /\ pc' = "suspended"
  /\ UNCHANGED << detectionStats, call, result, requests, analyzerVars, matcherVars,
                  lookupVars, behaviorVars, arbiterVars, enhancedVars >>

NextTermination ==
  \/ Next
  \/ ResolverStaysSilent

SpecTermination == Init /\ [][NextTermination]_vars

MaxPrivateCalls == 2

UA_ClaudeBot == JsStr(<<"C","l","a","u","d","e","B","o","t","/","1",".","0"," ","(","+","h","t","t","p","s",":","/","/","w","w","w",".","a","n","t","h","r","o","p","i","c",".","c","o","m","/","c","l","a","u","d","e","-","b","o","t",")">>)
UA_PerplexityBot == JsStr(<<"P","e","r","p","l","e","x","i","t","y","B","o","t","/","1",".","0"," ","(","+","h","t","t","p","s",":","/","/","p","e","r","p","l","e","x","i","t","y",".","a","i","/","b","o","t",")">>)
UA_Browser == JsStr(<<"M","o","z","i","l","l","a","/","5",".","0"," ","(","W","i","n","d","o","w","s"," ","N","T"," ","1","0",".","0",";"," ","W","i","n","6","4",";"," ","x","6","4",")"," ","A","p","p","l","e","W","e","b","K","i","t","/","5","3","7",".","3","6">>)
PrivateUserAgents == { UA_GPTBot, UA_ClaudeBot, UA_GoogleExtended, UA_PerplexityBot, UA_Browser }

PrivateClientIPs ==
  { IP_Loopback, IP_TenNet, IP_Private172, IP_Private192, IP_LinkLocal, IP_LinkLocal6 }

PrivateDetectLLMCompany(ua, ipAddress) ==
  /\ requests < MaxPrivateCalls
  /\ requests' = requests + 1
  /\ detectLLMCompanyBegin(ua, ipAddress)
  /\ UNCHANGED << clock, matcherVars, lookupVars, behaviorVars, arbiterVars, enhancedVars >>

NextPrivate ==
  \E ua \in PrivateUserAgents, ip \in PrivateClientIPs : PrivateDetectLLMCompany(ua, ip)

SpecPrivate == Init /\ [][NextPrivate]_vars

\* The company the README's test expects for each of its User-Agents
ExpectedCompany(ua) ==
  CASE ua = UA_GPTBot -> "openai"
    [] ua = UA_ClaudeBot -> "anthropic"
    [] ua = UA_GoogleExtended -> "google"
    [] ua = UA_PerplexityBot -> "perplexity"
    [] OTHER -> "none"

\* C27: with a private-network client address detectLLMCompany returns at
\* once, without a lookup, what checkUserAgent gives for the User-Agent
\* alone: the user_agent attribution of openai for GPTBot, anthropic for
\* ClaudeBot, google for Google-Extended, perplexity for PerplexityBot, and
\* null for a User-Agent with no registered signature; the network path
\* contributes no candidate.
C27_PrivateAddressUserAgentOnly ==
  (pc # "idle") =>
    /\ pc = "done"
    /\ call.ipPath = "private"
    /\ call.ipDetection = null
    /\ requestCount = 0 /\ cache = << >>
    /\ LET uaOnly == checkUserAgent(call.userAgent) IN
       IF ExpectedCompany(call.userAgent) = "none"
         THEN uaOnly = null /\ result = null
         ELSE /\ IsAttribution(result)
              /\ SameCandidate(result, uaOnly)
              /\ result.company = ExpectedCompany(call.userAgent)
              /\ result.method = "user_agent"

\* ClaudeBot has come from 127.0.0.1 and was attributed to anthropic, after
\* a browser from a 10.x address that was not attributed.
C27_Witness ==
  /\ pc = "done"
  /\ call.userAgent = UA_ClaudeBot /\ call.ipAddress = IP_Loopback
  /\ IsAttribution(result) /\ result.company = "anthropic"
  /\ requests = 2 /\ detectionStats.totalDetections = 1


\* C28 as stated: isGuidedPath is false for a path under a sensitive prefix
\* such as /admin/dashboard, so that no path is classified both guided and
\* sensitive; here for the paths of the activities handed to the logger,
\* whose isGuidedPath field is what isGuidedPath returned.
C28_AsStated ==
  \A i \in DOMAIN logQueueOf(tracked) :
    LET activityData == logQueueOf(tracked)[i] IN
    isSensitivePath(activityData.pageVisited) => ~ activityData.isGuidedPath


\* The request being handled, or just handled, is for a path that starts,
\* character for character, with one of the twelve ignored prefixes.
UnderIgnoredPrefix(path) ==
  \E prefix \in { <<"/","f","a","v","i","c","o","n",".","i","c","o">>,
                  <<"/","r","o","b","o","t","s",".","t","x","t">>,
                  <<"/","s","i","t","e","m","a","p",".","x","m","l">>,
                  <<"/","h","e","a","l","t","h">>,
                  <<"/","p","i","n","g">>,
                  <<"/",".","w","e","l","l","-","k","n","o","w","n","/">>,
                  <<"/","s","t","a","t","i","c","/">>,
                  <<"/","a","s","s","e","t","s","/">>,
                  <<"/","i","m","a","g","e","s","/">>,
                  <<"/","c","s","s","/">>,
                  <<"/","j","s","/">>,
                  <<"/","f","o","n","t","s","/">> } :
    /\ Len(path) >= Len(prefix)
    /\ \A i \in 1..Len(prefix) : path[i] = prefix[i]

\* A request for a path under an ignored prefix ran no detection; any other
\* request ran one.
TrackedExactly ==
  tracked.stage # "none" =>
    LET ignored == UnderIgnoredPrefix(tracked.requestInfo.pageVisited) IN
    /\ ignored => tracked.stage = "next" /\ tracked.detectCalls = 0 /\ tracked.lookups = 0
    /\ ~ ignored => tracked.detectCalls >= 1

\* The step in which the middleware takes up a request for an ignored path
\* is its call of next(), and leaves everything else as it was.
UntrackedStep ==
  ( /\ tracked' # tracked
    /\ tracked.stage \in {"none", "next"}
    /\ UnderIgnoredPrefix(tracked'.requestInfo.pageVisited) )
  => /\ tracked'.stage = "next"
     /\ tracked'.logQueue = logQueueOf(tracked)
     /\ UNCHANGED << requestHistory, lastBehavior, cache, requestCount, lastReset,
                     detectionStats, pc, call, result, activity >>

\* C29: shouldTrackPath(path) is false exactly when path starts with one of
\* the ignored prefixes; for such a path trackLLMActivity calls next()
\* without running any detection and leaves the behavior history, the IP
\* cache, the quota counter, the detection stats and the log queue
\* unchanged, and for every other path it runs the detection.
C29_UntrackedPathsAreSkipped == []TrackedExactly /\ [][UntrackedStep]_vars

\* After a request that was detected and logged, a request for /static/a.js
\* went straight to next(): the queue still holds the one activity.
C29_Witness ==
  /\ tracked.stage = "next"
  /\ tracked.requestInfo.pageVisited = Path_Static
  /\ tracked.handled = 2
  /\ Len(tracked.logQueue) = 1
  /\ detectionStats.totalDetections = 1

(***************************************************************************)
(* The signature matcher called again and again (specification             *)
(* SpecMatcherCalls): checkUserAgent applied to one User-Agent after       *)
(* another, the same one or a different one, in any order.                 *)
(***************************************************************************)
\* Every registered signature as written and lower-cased, and values that
\* contain no signature or are no string
CallUserAgents ==
  { JsStr(s) : s \in AllSignatures }
  \cup { JsStr(toLowerCase(s)) : s \in AllSignatures }
  \cup { UA_GPTBotShort, UA_Mozilla, JsStr(<< >>), JsUndefined, JsNumber }

CheckUserAgentOf(ua) ==
  /\ userAgent' = ua
  /\ uaDetection' = checkUserAgent(ua)
  /\ UNCHANGED << analyzerVars, detectorVars, lookupVars, behaviorVars, arbiterVars, enhancedVars >>

NextMatcherCalls == \E ua \in CallUserAgents : CheckUserAgentOf(ua)

SpecMatcherCalls == Init /\ [][NextMatcherCalls]_vars

\* Signature j of registry entry i is contained, case-insensitively, in s.
ContainsSignature(s, i, j) ==
  includes(toLowerCase(s), toLowerCase(LLM_SIGNATURES[i].userAgents[j]))

\* (i, j) is the first pair, in registry order and then list order, whose
\* signature s contains.
IsFirstPair(s, i, j) ==
  /\ ContainsSignature(s, i, j)
  /\ \A l \in 1..(j - 1) : ~ ContainsSignature(s, i, l)
  /\ \A k \in 1..(i - 1) : \A l \in DOMAIN LLM_SIGNATURES[k].userAgents :
       ~ ContainsSignature(s, k, l)

\* What the last call returned is what its User-Agent alone determines.
FirstPairReturned ==
  (uaDetection # NotCalled) =>
    IF userAgent.type # "string" \/ userAgent.s = << >>
      THEN uaDetection = null
      ELSE
        \/ /\ uaDetection = null
           /\ \A i \in DOMAIN LLM_SIGNATURES : \A j \in DOMAIN LLM_SIGNATURES[i].userAgents :
                ~ ContainsSignature(userAgent.s, i, j)
        \/ \E i \in DOMAIN LLM_SIGNATURES : \E j \in DOMAIN LLM_SIGNATURES[i].userAgents :
             /\ IsFirstPair(userAgent.s, i, j)
             /\ uaDetection # null
             /\ uaDetection.company = LLM_SIGNATURES[i].company
             /\ uaDetection.companyName = LLM_SIGNATURES[i].name
             /\ uaDetection.matchedPattern = LLM_SIGNATURES[i].userAgents[j]
             /\ uaDetection.method = "user_agent"
             /\ uaDetection.confidence \in {80, 90, 95}

\* A call changes nothing but the matcher's argument and result.
MatcherFrame ==
  UNCHANGED << cache, requestCount, lastReset, detectionStats, requestHistory,
               pc, call, result, activity, tracked, logger >>

\* C30: checkUserAgent returns the user_agent attribution of the first
\* (company, signature) pair, in registry order and then list order, whose
\* lower-cased signature is contained in the lower-cased User-Agent, and null
\* when there is none; what it returns depends on the User-Agent alone,
\* whatever was asked before, and the call changes no state.
C30_FirstPairInOrder == []FirstPairReturned /\ [][MatcherFrame]_vars

\* 'claude-web' contains three signatures of anthropic (CLAUDE-WEB, Claude-Web
\* and Claude): the call returned the one listed first.
C30_Witness ==
  /\ userAgent = JsStr(<<"c","l","a","u","d","e","-","w","e","b">>)
  /\ uaDetection # null /\ uaDetection # NotCalled
  /\ uaDetection.company = "anthropic"
  /\ uaDetection.matchedPattern = <<"C","L","A","U","D","E","-","W","E","B">>

(***************************************************************************)
(* The daily reset of the quota (specification SpecAnalyzer)               *)
(***************************************************************************)
Day == 24 * 60 * 60 * 1000

\* In this step an analyzeIP call gets past the quota check and sends its
\* lookup out, or is turned away by it.
LookupStarts == Len(lookups') > Len(lookups)
TurnedAway == lastLookup' # lastLookup /\ lastLookup'.path = "quota"

DailyReset ==
  /\ (requestCount' < requestCount \/ lastReset' # lastReset)
       => /\ clock - lastReset > Day
          /\ requestCount' = 0
          /\ lastReset' = clock
          /\ LookupStarts
  /\ LookupStarts
       => IF clock - lastReset > Day
            THEN requestCount' = 0 /\ lastReset' = clock
            ELSE /\ requestCount' = requestCount /\ lastReset' = lastReset
                 /\ requestCount < maxRequestsPerDay
  /\ TurnedAway
       => /\ clock - lastReset <= Day
          /\ requestCount >= maxRequestsPerDay
          /\ requestCount' = requestCount /\ lastReset' = lastReset

\* C31: when more than 24 hours have passed since the last reset, the next
\* lookup that reaches the quota check sets the counter to 0 and lastReset to
\* the current time before it tests the quota, so that it is sent out even if
\* the quota was exhausted; when 24 hours or less have passed the counter is
\* not reset (no step lowers it or moves lastReset).
C31_DailyReset == [][DailyReset]_vars

\* The quota was used up on the first day; a lookup made after more than 24
\* hours has reset the counter and is in flight.
C31_Witness ==
  /\ lastReset = clock /\ lastReset > Day
  /\ requestCount = 0
  /\ Len(lookups) = 1
  /\ DOMAIN cache # {}


\* C32 as stated: requestCount (and with it the number of lookups counted
\* against the quota since the last reset) never exceeds maxRequestsPerDay,
\* however the overlapping requests interleave.
C32_AsStated == requestCount <= maxRequestsPerDay


\* C33 as stated: at any time at most one external lookup per IP is in
\* flight (a later caller for the same uncached IP waits for the earlier
\* caller's lookup and is served from its result).
C33_AsStated ==
  \A i \in DOMAIN lookups : \A j \in DOMAIN lookups :
    i # j => lookups[i].ipAddress # lookups[j].ipAddress


\* A step of the middleware that ends the handling of a request calls next()
\* once, with no argument; no other step calls it.
NextOnce ==
  /\ tracked.stage # "none" =>
       /\ tracked.nextError = undefined
       /\ tracked.nextCalls = IF tracked.stage = "next" THEN 1 ELSE 0

\* C34: for every request, whether its path is untracked, detection finds
\* nothing, detection finds an attribution, or detection or the logging of
\* the activity throws, trackLLMActivity calls next() exactly once (when the
\* handling ends, and not before) and passes no error to it.
C34_NextExactlyOnce == NextOnce

\* The four ways a request can end: skipped, nothing found (after the
\* fallback), attributed and logged, and an exception caught.
C34_Witness ==
  /\ tracked.stage = "next" /\ tracked.caught /\ tracked.nextCalls = 1
  /\ tracked.handled = 2 /\ Len(tracked.logQueue) = 1


\* C35 as stated: when a request ends with an attribution, the detection
\* stats are those it found, raised once at the attribution's method and
\* company; when it ends with none, they are as it found them.
C35_AsStated ==
  (tracked.stage = "next" /\ ~ tracked.caught) =>
    IF tracked.detection # null /\ tracked.detection # undefined
      THEN detectionStats = updateStats(tracked.statsBefore, tracked.detection)
      ELSE detectionStats = tracked.statsBefore

(***************************************************************************)
(* Records of the behavior map (specification SpecRetention): two clients  *)
(* ask for two URLs, before and after the one-hour horizon, and the sweep  *)
(* runs at any moment.                                                     *)
(***************************************************************************)
\* Longest history of a key
MaxRetained == 3

RetentionInstants == { 0, 1, 3600000, 3600001 }
RetentionUserAgents == { UA_Mozilla.s, UA_Headless.s }
RetentionUrls == { Url(1), Url(2) }

RetentionTick ==
  /\ \E t \in RetentionInstants : t > clock /\ clock' = t
  /\ UNCHANGED << cache, requestCount, lastReset, detectorVars, matcherVars, lookupVars,
                  behaviorVars, arbiterVars, enhancedVars >>

NextRetention ==
  \/ \E ua \in RetentionUserAgents, url \in RetentionUrls :
       /\ Len(requestsOf(requestHistory, behaviorKey(Client_IP, ua))) < MaxRetained
       /\ AnalyzeBehavior(Client_IP, ua, url)
  \/ RetentionTick
  \/ CleanupOldRequests

SpecRetention == Init /\ [][NextRetention]_vars

\* The URLs of the history entries of a record
HistoryUrls(record) == { record.requests[i].url : i \in DOMAIN record.requests }

\* C36: in every state between operations (observe and sweep, in any order)
\* every record of the behavior map has at least one history entry and its
\* URL set contains every URL of its history; in the state a sweep leaves, no
\* entry is one hour old or older.
C36_RecordsWellFormed ==
  \A key \in DOMAIN requestHistory :
    /\ Len(requestHistory[key].requests) >= 1
    /\ HistoryUrls(requestHistory[key]) \subseteq requestHistory[key].urls
    /\ (lastBehavior.op = "cleanup" /\ lastBehavior.at = clock)
         => \A i \in DOMAIN requestHistory[key].requests :
              requestHistory[key].requests[i].timestamp > clock - 3600000

\* A sweep has removed the record of one client altogether and, of the other
\* client's entries, the one for a URL that its URL set still holds.
C36_Witness ==
  /\ lastBehavior.op = "cleanup" /\ lastBehavior.at = clock
  /\ Cardinality(DOMAIN requestHistory) = 1
  /\ \E key \in DOMAIN requestHistory :
       /\ Len(requestHistory[key].requests) = 1
       /\ HistoryUrls(requestHistory[key]) # requestHistory[key].urls

(***************************************************************************)
(* The ActivityLogger: logLLMActivity queues, the flush timer and flush()  *)
(* drain the queue in batches, processBatch inserts a batch and is         *)
(* suspended while the database answers.                                   *)
(***************************************************************************)
\* this.batchSize is 10 and the re-queue limit of processBatch is 100; the
\* code only compares queue lengths with them, and the model runs them
\* scaled down.
batchSize == 2
requeueLimit == 3

\* Number of logLLMActivity calls a run makes, and the value of errorCount
\* from which the model lets nothing fail any more
MaxLogged == 4
MaxErrors == 2

\* Mutant of processBatchBegin: the isProcessing flag is not checked.
processBatchBegin_NoGuard(L, caller) ==
  IF Len(L.logQueue) = 0
    THEN L
    ELSE LET n == IF Len(L.logQueue) < batchSize THEN Len(L.logQueue) ELSE batchSize IN
         [ L EXCEPT
             !.isProcessing = TRUE,
             !.logQueue = SubSeq(@, n + 1, Len(@)),
             !.executions = Append(@, [ batch |-> SubSeq(L.logQueue, 1, n),
                                        caller |-> caller, stage |-> "insert" ]) ]

\* Mutant of processBatchBegin: the whole queue is spliced off, the batch is
\* its first batchSize activities.
processBatchBegin_SpliceAll(L, caller) ==
  IF L.isProcessing \/ Len(L.logQueue) = 0
    THEN L
    ELSE LET n == IF Len(L.logQueue) < batchSize THEN Len(L.logQueue) ELSE batchSize IN
         [ L EXCEPT
             !.isProcessing = TRUE,
             !.logQueue = << >>,
             !.executions = Append(@, [ batch |-> SubSeq(L.logQueue, 1, n),
                                        caller |-> caller, stage |-> "insert" ]) ]

\* processBatch() up to `await supabase.from('llm_activity').insert(batch)`;
\* the logger is left as it is when the method returns at once
processBatchBegin(L, caller) ==
  IF L.isProcessing \/ Len(L.logQueue) = 0
    THEN L
    ELSE LET n == IF Len(L.logQueue) < batchSize THEN Len(L.logQueue) ELSE batchSize IN
         [ L EXCEPT
             !.isProcessing = TRUE,
             !.logQueue = SubSeq(@, n + 1, Len(@)),
             !.executions = Append(@, [ batch |-> SubSeq(L.logQueue, 1, n),
                                        caller |-> caller, stage |-> "insert" ]) ]

\* The callers of processBatch: the timer, flush(), or the logLLMActivity
\* call of an activity
Caller_Timer == [kind |-> "timer"]
Caller_Flush == [kind |-> "flush"]
Caller_Log(id) == [kind |-> "log", id |-> id]

\* The `finally` of execution i and the return of processBatch to its caller
processBatchEnd(L, i) ==
  LET caller == L.executions[i].caller IN
  [ L EXCEPT
      !.isProcessing = FALSE,
      !.executions = SubSeq(@, 1, i - 1) \o SubSeq(@, i + 1, Len(@)),
      !.returnedTrue = IF caller.kind = "log" THEN @ \cup {caller.id} ELSE @,
      !.flush = IF caller.kind = "flush" THEN "check" ELSE @ ]

\* The rest of processBatch, from the answer to the insert: accepted, to the
\* awaits of updateAggregatedStats; an error in the response or an exception,
\* to the end
processBatchSettled(L, i, outcome) ==
  LET batch == L.executions[i].batch IN
  CASE outcome = "accepted" ->
         [ L EXCEPT !.stats.successCount = @ + Len(batch),
                    !.stats.totalLogged = @ + Len(batch),
                    !.database = @ \o batch,
                    !.executions[i].stage = "stats" ]
    [] outcome = "insertError" ->
         processBatchEnd(
           [ L EXCEPT !.stats.errorCount = @ + Len(batch),
                      !.logQueue = IF Len(@) < requeueLimit THEN batch \o @ ELSE @ ],
           i)
    [] outcome = "throws" ->
         processBatchEnd([ L EXCEPT !.stats.errorCount = @ + Len(batch) ], i)

\* logLLMActivity(data): data without the fields of an activity makes
\* prepareActivityData throw; an activity is pushed under the next number
logLLMActivity(L, data) ==
  IF data = "undefined"
    THEN [ L EXCEPT !.stats.errorCount = @ + 1 ]
    ELSE LET id == L.pushed + 1
             pushed == [ L EXCEPT !.logQueue = Append(@, id), !.pushed = id ]
             begun == IF Len(pushed.logQueue) >= batchSize
                        THEN processBatchBegin(pushed, Caller_Log(id))
                        ELSE pushed
         IN IF Len(begun.executions) > Len(L.executions)
              THEN begun
              ELSE [ begun EXCEPT !.returnedTrue = @ \cup {id} ]

\* The loop of flush(), from its condition to the await of processBatch or to
\* the return
flushLoop(L) ==
  IF Len(L.logQueue) > 0 /\ ~ L.isProcessing
    THEN [ processBatchBegin(L, Caller_Flush) EXCEPT !.flush = "awaiting" ]
    ELSE [ L EXCEPT !.flush = "resolved" ]

LoggerFrame ==
  UNCHANGED << analyzerVars, detectorVars, matcherVars, lookupVars, behaviorVars,
               arbiterVars, activity, tracked >>

LoggedData == { "activity", "undefined" }

LogLLMActivity(data) ==
  /\ logger.pushed < MaxLogged
  /\ data = "undefined" => logger.stats.errorCount < MaxErrors
  /\ logger' = logLLMActivity(logger, data)
  /\ LoggerFrame

\* The callback of startBatchProcessing's setInterval
FlushTimerFires ==
  /\ Len(logger.logQueue) > 0 /\ ~ logger.isProcessing
  /\ logger' = processBatchBegin(logger, Caller_Timer)
  /\ LoggerFrame

InsertOutcomes == { "accepted", "insertError", "throws" }

InsertSettles(outcome) ==
  /\ \E i \in DOMAIN logger.executions :
       /\ logger.executions[i].stage = "insert"
       /\ logger' = processBatchSettled(logger, i, outcome)
  /\ outcome # "accepted" => logger.stats.errorCount < MaxErrors
  /\ LoggerFrame

\* The awaits of updateAggregatedStats are over: `finally`, and the return
StatsUpdated ==
  /\ \E i \in DOMAIN logger.executions :
       /\ logger.executions[i].stage = "stats"
       /\ logger' = processBatchEnd(logger, i)
  /\ LoggerFrame

\* flush() is called
Flush ==
  /\ logger.flush = "idle"
  /\ logger' = flushLoop(logger)
  /\ LoggerFrame

\* flush() goes on after `await this.processBatch()`
FlushResumes ==
  /\ logger.flush = "check"
  /\ logger' = flushLoop(logger)
  /\ LoggerFrame

NextLogger ==
  \/ \E data \in LoggedData : LogLLMActivity(data)
  \/ FlushTimerFires
  \/ \E outcome \in InsertOutcomes : InsertSettles(outcome)
  \/ StatsUpdated
  \/ Flush
  \/ FlushResumes

SpecLogger == Init /\ [][NextLogger]_vars

\* C37: under any interleaving of logLLMActivity calls, timer ticks and
\* flush(), at most one processBatch execution is between the splice of its
\* batch and its end, every batch holds at most batchSize activities, and
\* isProcessing is false whenever no batch is in flight.
C37_OneBatchInFlight ==
  /\ Len(logger.executions) <= 1
  /\ \A i \in DOMAIN logger.executions :
       Len(logger.executions[i].batch) \in 1..batchSize
  /\ logger.isProcessing <=> Len(logger.executions) = 1

\* An insert was accepted, another failed, a full batch waits in the queue
\* and none is in flight.
C37_Witness ==
  /\ logger.executions = << >> /\ ~ logger.isProcessing
  /\ logger.stats.errorCount >= batchSize
  /\ Len(logger.database) >= batchSize
  /\ Len(logger.logQueue) >= batchSize


\* A step in which the insert of the batch in flight fails, by an error in
\* the response or by an exception
InsertFails ==
  /\ Len(logger.executions) = 1 /\ logger.executions[1].stage = "insert"
  /\ logger'.executions = << >>

\* C38 as stated: when the insert of a batch fails, the batch is put back at
\* the front of the queue in its order if the queue holds fewer than the
\* re-queue limit and is discarded otherwise, and errorCount grows by the
\* length of the batch.
C38_AsStated ==
  [][ InsertFails =>
        LET batch == logger.executions[1].batch IN
        /\ logger'.logQueue =
             IF Len(logger.logQueue) < requeueLimit
               THEN batch \o logger.logQueue
               ELSE logger.logQueue
        /\ logger'.stats.errorCount = logger.stats.errorCount + Len(batch) ]_vars


\* A step in which flush() returns
FlushResolves == logger.flush # "resolved" /\ logger'.flush = "resolved"

\* C39 as stated: when flush() resolves, all pending logs have been flushed:
\* the log queue is empty.
C39_AsStated == [][ FlushResolves => logger'.logQueue = << >> ]_vars


(***************************************************************************)
(* The logger with a database that accepts every insert (specification     *)
(* SpecAccepting): the flush timer keeps firing, every insert is answered  *)
(* and accepted, every update of the aggregated stats ends.                *)
(***************************************************************************)
InsertAccepted == InsertSettles("accepted")

NextAccepting ==
  \/ \E data \in LoggedData : LogLLMActivity(data)
  \/ FlushTimerFires
  \/ InsertAccepted
  \/ StatsUpdated

SpecAccepting ==
  /\ Init /\ [][NextAccepting]_vars
  /\ WF_vars(FlushTimerFires) /\ WF_vars(InsertAccepted) /\ WF_vars(StatsUpdated)

\* The rows of llm_activity that hold the activity
RowsOf(id) == { i \in DOMAIN logger.database : logger.database[i] = id }

\* totalLogged equals successCount and does not exceed the number of
\* activities queued, and no activity has two rows
CountedOnce ==
  /\ logger.stats.totalLogged = logger.stats.successCount
  /\ logger.stats.totalLogged <= logger.pushed
  /\ \A id \in 1..MaxLogged : Cardinality(RowsOf(id)) <= 1

\* C40: if the database accepts every insert and the flush timer keeps
\* firing, every activity for which logLLMActivity returned true is
\* eventually inserted, exactly once; totalLogged always equals successCount
\* and never exceeds the number of activities queued.
C40_EveryActivityInsertedOnce ==
  /\ []CountedOnce
  /\ \A id \in 1..MaxLogged :
       (id \in logger.returnedTrue) ~> (Cardinality(RowsOf(id)) = 1)

\* Activities were queued while a batch was in flight and after it, every
\* call has returned true, and each activity has its row.
C40_Witness ==
  /\ logger.pushed > batchSize
  /\ logger.returnedTrue = 1..logger.pushed
  /\ logger.logQueue = << >> /\ logger.executions = << >>
  /\ \A id \in 1..logger.pushed : Cardinality(RowsOf(id)) = 1
  /\ logger.stats.totalLogged = logger.pushed
====
